---- MODULE Spec2Model ----
(***************************************************************************)
(* Conveyor blending simulation: SimulationEngine.run_simulation, the      *)
(* SimulationValidator and the MatrixCalculator.                           *)
(*                                                                         *)
(* Numbers.  The program computes in floating point; the model computes    *)
(* exactly, on integer inputs.  dt = resolution_size / conveyor_velocity   *)
(* is a rational, so every time and every mass of a run is held multiplied *)
(* by conveyor_velocity ("scaled"): the loop variable time is              *)
(* counter * resolution_size and quantity_at_time(dt) is                   *)
(* flow_rate * resolution_size.  Comparisons between times are made on the *)
(* scaled values by cross-multiplication.  Quotients the program returns   *)
(* (proportions, blended chemistry) are exact rationals <<n, d>> in lowest *)
(* terms with d > 0.  Python indices start at 0, sequences here at 1.      *)
(***************************************************************************)
EXTENDS Integers, Sequences, FiniteSets, TLC

VARIABLES candidates, pc, entry, calls, bf_initialized, parameters,
          material_matrix, flow_data, chemistry_matrix, counter, time,
          results, first, table, proportions_out, other, bunker,
          transfer_bin

vars == <<candidates, pc, entry, calls, bf_initialized, parameters,
          material_matrix, flow_data, chemistry_matrix, counter, time,
          results, first, table, proportions_out, other, bunker, transfer_bin>>

None == "None"

(***************************************************************************)
(* Bounds of the checked instances.                                        *)
(***************************************************************************)
MaxTime == 3
MaxLength == 3
MaxCalls == 3
MaxRows == 2

\* the layers of a bunker and its height in metres
MaxLayers == 3

MaxHeight == 2

\* the calls made on a transfer bin
MaxOps == 4

(***************************************************************************)
(* Arithmetic helpers.                                                     *)
(***************************************************************************)
Abs(x) == IF x < 0 THEN -x ELSE x

Max(a, b) == IF a >= b THEN a ELSE b

GCD[a \in Int, b \in Int] == IF b = 0 THEN a ELSE GCD[b, a % b]

\* the rational n/d (d # 0) in lowest terms with a positive denominator
Rat[n \in Int, d \in Int] ==
  LET g == GCD[Abs(n), Abs(d)]
      s == IF d < 0 THEN -1 ELSE 1
  IN  <<(s * n) \div g, (s * d) \div g>>

RatAdd[a \in Int \X Int, b \in Int \X Int] ==
  LET g == GCD[a[2], b[2]]
  IN  Rat[a[1] * (b[2] \div g) + b[1] * (a[2] \div g), (a[2] \div g) * b[2]]

RatLeq(a, b) == a[1] * b[2] <= b[1] * a[2]

Zero == <<0, 1>>

\* the sum of the sequence s, by halves
SumSeq(s) ==
  LET SumRange[lo \in 1..(Len(s) + 1), hi \in 0..Len(s)] ==
        IF lo > hi THEN 0
        ELSE IF lo = hi THEN s[lo]
        ELSE SumRange[lo, (lo + hi) \div 2] + SumRange[(lo + hi) \div 2 + 1, hi]
  IN  SumRange[1, Len(s)]

SumRat(s) ==
  LET SumRange[lo \in 1..(Len(s) + 1), hi \in 0..Len(s)] ==
        IF lo > hi THEN Zero
        ELSE IF lo = hi THEN s[lo]
        ELSE RatAdd[SumRange[lo, (lo + hi) \div 2],
                    SumRange[(lo + hi) \div 2 + 1, hi]]
  IN  SumRange[1, Len(s)]

\* Python's round() of the rational n/d, d > 0: to nearest, ties to even
Round(n, d) ==
  LET fl == n \div d
      r2 == 2 * (n - fl * d)
  IN  IF r2 < d THEN fl
      ELSE IF r2 > d THEN fl + 1
      ELSE IF fl % 2 = 0 THEN fl ELSE fl + 1

(***************************************************************************)
(* models/silo.py and models/simulation_data.py: the constructors.         *)
(***************************************************************************)
\* Silo.__post_init__ / _validate_parameters: TRUE iff no ValueError
Silo_validate_parameters(self) ==
  /\ ~(self.capacity <= 0)
  /\ ~(self.flow_rate <= 0)
  /\ ~(self.material_position < 0)
  /\ ~(self.silo_position < 0)
  /\ ~(self.start_time < 0)

\* SimulationParameters.__post_init__ / _validate_parameters
SimulationParameters_validate_parameters(self) ==
  /\ ~(self.total_time <= 0)
  /\ ~(self.conveyor_length <= 0)
  /\ ~(self.resolution_size <= 0)
  /\ ~(self.conveyor_velocity <= 0)
  /\ ~(self.resolution_size > self.conveyor_length)

\* Silo.quantity_at_time(dt) for dt = resolution_size / velocity, scaled
quantity_at_time(self, resolution_size) == self.flow_rate * resolution_size

\* Silo.end_time() = start_time + capacity / flow_rate, as a rational
end_time(self) == Rat[self.start_time * self.flow_rate + self.capacity, self.flow_rate]

\* is_active_at_time with the end of the window left out
is_active_before_end(self, t, v) ==
  /\ RatLeq(Rat[self.start_time, 1], Rat[t, v])
  /\ ~RatLeq(end_time(self), Rat[t, v])

\* Silo.is_active_at_time(time) for the scaled time t of a belt of velocity v
is_active_at_time(self, t, v) ==
  /\ RatLeq(Rat[self.start_time, 1], Rat[t, v])
  /\ RatLeq(Rat[t, v], end_time(self))

(***************************************************************************)
(* simulation/validator.py.  Each check returns the kind of the first      *)
(* ValidationError it raises, or None when it returns normally.            *)
(***************************************************************************)
_validate_basic_parameters(params) ==
  IF params.total_time <= 0 THEN "Simulation time must be positive"
  ELSE IF params.conveyor_length <= 0 THEN "Conveyor length must be positive"
  ELSE IF params.resolution_size <= 0 THEN "Resolution size must be positive"
  ELSE IF params.conveyor_velocity <= 0 THEN "Conveyor velocity must be positive"
  ELSE IF params.resolution_size > params.conveyor_length
       THEN "Resolution size cannot exceed conveyor length"
  ELSE None

Range(s) == {s[i] : i \in DOMAIN s}

_validate_materials(params) ==
  IF params.materials = <<>> THEN "At least one material must be defined"
  ELSE IF Cardinality(Range(params.materials)) # Len(params.materials)
       THEN "Material names must be unique"
  ELSE None

\* SiloLoop that accepts a position one past the last segment
RECURSIVE SiloLoopOffByOne(_, _, _, _)
SiloLoopOffByOne(silos, n_segments, n_materials, total_time) ==
  IF silos = <<>> THEN None
  ELSE LET silo == Head(silos) IN
       IF silo.silo_position > n_segments THEN "Position exceeds conveyor length"
       ELSE IF silo.material_position >= n_materials
            THEN "Material position exceeds material count"
       ELSE IF silo.start_time > total_time THEN "Start time exceeds simulation time"
       ELSE SiloLoopOffByOne(Tail(silos), n_segments, n_materials, total_time)

\* SiloLoop without the start_time check
RECURSIVE SiloLoopNoStartCheck(_, _, _, _)
SiloLoopNoStartCheck(silos, n_segments, n_materials, total_time) ==
  IF silos = <<>> THEN None
  ELSE LET silo == Head(silos) IN
       IF silo.silo_position >= n_segments THEN "Position exceeds conveyor length"
       ELSE IF silo.material_position >= n_materials
            THEN "Material position exceeds material count"
       ELSE SiloLoopNoStartCheck(Tail(silos), n_segments, n_materials, total_time)

\* the first silo (in list order) that fails a check decides the error
RECURSIVE SiloLoop(_, _, _, _)
SiloLoop(silos, n_segments, n_materials, total_time) ==
  IF silos = <<>> THEN None
  ELSE LET silo == Head(silos) IN
       IF silo.silo_position >= n_segments THEN "Position exceeds conveyor length"
       ELSE IF silo.material_position >= n_materials
            THEN "Material position exceeds material count"
       ELSE IF silo.start_time > total_time THEN "Start time exceeds simulation time"
       ELSE SiloLoop(Tail(silos), n_segments, n_materials, total_time)

_validate_silos(params) ==
  IF params.silos = <<>> THEN "At least one silo must be defined"
  ELSE SiloLoop(params.silos,
                params.conveyor_length \div params.resolution_size,
                Len(params.materials),
                params.total_time)

\* _validate_physical_constraints without the end_time check
_validate_physical_constraints_off(params) == None

\* end_time > total_time * 1.5
RECURSIVE _validate_physical_constraints(_)
_validate_physical_constraints(params) ==
  IF params.silos = <<>> THEN None
  ELSE IF ~RatLeq(end_time(Head(params.silos)), Rat[3 * params.total_time, 2])
       THEN "Will not empty within reasonable time"
  ELSE _validate_physical_constraints([params EXCEPT !.silos = Tail(@)])

validate_parameters(params) ==
  IF _validate_basic_parameters(params) # None THEN _validate_basic_parameters(params)
  ELSE IF _validate_materials(params) # None THEN _validate_materials(params)
  ELSE IF _validate_silos(params) # None THEN _validate_silos(params)
  ELSE _validate_physical_constraints(params)

(***************************************************************************)
(* simulation/calculator.py                                                *)
(***************************************************************************)
ZeroMatrix(rows, cols) == [m \in 1..rows |-> [c \in 1..cols |-> 0]]

\* shift_matrix_right that moves the content one column too far
shift_matrix_too_far(matrix, steps) ==
  [m \in 1..Len(matrix) |->
    [c \in 1..Len(matrix[1]) |->
      IF c > steps + 1 THEN matrix[m][c - steps - 1] ELSE 0]]

\* shift_matrix_right that rolls the flattened array: the last cell of a
\* row moves into the first cell of the next row
shift_matrix_flat(matrix, steps) ==
  [m \in 1..Len(matrix) |->
    [c \in 1..Len(matrix[1]) |->
      IF c > 1 THEN matrix[m][c - 1]
      ELSE IF m > 1 THEN matrix[m - 1][Len(matrix[1])]
      ELSE 0]]

\* shift_matrix_right that rolls each row: what leaves at the right end
\* comes back in at the left end
shift_matrix_roll(matrix, steps) ==
  IF steps <= 0 THEN matrix
  ELSE [m \in 1..Len(matrix) |->
         [c \in 1..Len(matrix[1]) |->
           matrix[m][((c - 1 - steps) % Len(matrix[1])) + 1]]]

shift_matrix_right(matrix, steps) ==
  IF steps <= 0 THEN matrix
  ELSE LET rows == Len(matrix)
           cols == Len(matrix[1])
       IN  [m \in 1..rows |->
             [c \in 1..cols |->
               IF steps < cols /\ c > steps THEN matrix[m][c - steps] ELSE 0]]

\* numpy true division of two numbers: a rational, or a non-finite value
\* with denominator 0 (<<0,0>> is nan, <<1,0>> is inf, <<-1,0>> is -inf)
np_divide(a, b) ==
  IF b # 0 THEN Rat[a, b]
  ELSE IF a = 0 THEN <<0, 0>>
  ELSE IF a > 0 THEN <<1, 0>> ELSE <<-1, 0>>

np_times(x, k) == IF x[2] = 0 THEN x ELSE Rat[x[1] * k, x[2]]

np_isfinite(x) == x[2] # 0

\* the columns of one row of a flow table
MaterialColumns(row) == SubSeq(row, 1, Len(row) - 2)

TotalColumn(row) == row[Len(row)]

TimeColumn(row) == row[Len(row) - 1]

\* calculate_proportions that leaves the non-finite quotients in place
calculate_proportions_keeps_nan(data) ==
  [raised |-> None,
   value |->
     [i \in 1..Len(data) |->
       [j \in 1..(Len(data[i]) - 2) |->
         np_times(np_divide(data[i][j], TotalColumn(data[i])), 100)]]]

\* calculate_proportions that stops after the masked assignment: rows
\* whose total is not > 0 stay 0
calculate_proportions_masked(data) ==
  [raised |-> None,
   value |->
     [i \in 1..Len(data) |->
       [j \in 1..(Len(data[i]) - 2) |->
         IF TotalColumn(data[i]) > 0
         THEN Rat[data[i][j] * 100, TotalColumn(data[i])]
         ELSE Zero]]]

\* calculate_proportions that returns fractions, not percentages
calculate_proportions_fraction(data) ==
  [raised |-> None,
   value |->
     [i \in 1..Len(data) |->
       [j \in 1..(Len(data[i]) - 2) |->
         LET q == np_divide(data[i][j], TotalColumn(data[i]))
         IN  IF ~np_isfinite(q) THEN Zero ELSE q]]]

\* calculate_proportions: the masked assignment is overwritten by the
\* errstate division, whose non-finite entries are then replaced with 0
calculate_proportions(data) ==
  IF Len(data[1]) < 3
  THEN [raised |-> "ValueError", value |-> <<>>]
  ELSE [raised |-> None,
        value |->
          [i \in 1..Len(data) |->
            LET materials == MaterialColumns(data[i])
                totals == TotalColumn(data[i])
            IN  [j \in 1..Len(materials) |->
                  LET q == np_times(np_divide(materials[j], totals), 100)
                  IN  IF ~np_isfinite(q) THEN Zero ELSE q]]]

SumRows(rows) == SumSeq([i \in 1..Len(rows) |-> SumSeq(rows[i])])

\* calculate_mass_balance whose input slice [:, :-1] takes in the time column
calculate_mass_balance_with_time(data) ==
  LET total_input ==
        SumRows([i \in 1..Len(data) |-> SubSeq(data[i], 1, Len(data[i]) - 1)])
      total_output == SumSeq([i \in 1..Len(data) |-> TotalColumn(data[i])])
      err == Abs(total_input - total_output)
  IN  [total_input |-> total_input,
       total_output |-> total_output,
       balance_error |-> err,
       balance_error_percent |->
         IF total_input > 0 THEN Rat[err * 100, total_input]
         ELSE IF err = 0 THEN Zero ELSE <<1, 0>>]

\* calculate_mass_balance; max(total_input, 1e-10) is total_input for the
\* positive integers of the model, and 0 / 1e-10 is 0; an error over a
\* total_input <= 0 is a quotient by 1e-10, held as the marker <<1, 0>>
calculate_mass_balance(data) ==
  LET total_input == SumRows([i \in 1..Len(data) |-> MaterialColumns(data[i])])
      total_output == SumSeq([i \in 1..Len(data) |-> TotalColumn(data[i])])
      err == Abs(total_input - total_output)
  IN  [total_input |-> total_input,
       total_output |-> total_output,
       balance_error |-> err,
       balance_error_percent |->
         IF total_input > 0 THEN Rat[err * 100, total_input]
         ELSE IF err = 0 THEN Zero ELSE <<1, 0>>]

(***************************************************************************)
(* simulation/engine.py: the helpers of SimulationEngine.                  *)
(* material_chemistry is a dict in insertion order: a sequence of entries  *)
(* [name, chemistry], chemistry being <<Fe, SiO2, CaO, MgO, Al2O3>> (a     *)
(* component the dict lacks reads as 0 through chemistry.get).             *)
(***************************************************************************)
NoMatrix == <<>>

NoResults == [none |-> TRUE]

Components == 5

\* _add_material_to_conveyor whose bounds check leaves out the last column
_add_material_to_conveyor_short(matrix, material_pos, silo_pos, quantity) ==
  IF /\ 0 <= material_pos /\ material_pos < Len(matrix)
     /\ 0 <= silo_pos /\ silo_pos < Len(matrix[1]) - 1
  THEN [matrix EXCEPT ![material_pos + 1][silo_pos + 1] = @ + quantity]
  ELSE matrix

_add_material_to_conveyor(matrix, material_pos, silo_pos, quantity) ==
  IF /\ 0 <= material_pos /\ material_pos < Len(matrix)
     /\ 0 <= silo_pos /\ silo_pos < Len(matrix[1])
  THEN [matrix EXCEPT ![material_pos + 1][silo_pos + 1] = @ + quantity]
  ELSE matrix

_initialize_chemistry_tracking(n_materials, n_segments, material_chemistry) ==
  [m \in 1..n_materials |-> [c \in 1..n_segments |-> [k \in 1..Components |-> 0]]]

\* weight = quantity / max(quantity, 1e-10) is 1 for every quantity >= 1e-10
_add_chemistry_to_conveyor(cm, material_pos, silo_pos, quantity, material_chemistry) ==
  IF /\ 0 <= material_pos /\ material_pos < Len(cm)
     /\ 0 <= silo_pos /\ silo_pos < Len(cm[1])
     /\ material_pos < Len(material_chemistry)
  THEN LET chemistry == material_chemistry[material_pos + 1].chemistry
           weight == 1
       IN  [cm EXCEPT ![material_pos + 1][silo_pos + 1] =
                         [k \in 1..Components |-> @[k] + chemistry[k] * weight]]
  ELSE cm

_shift_chemistry_matrix(cm, steps) ==
  IF steps <= 0 THEN cm
  ELSE LET segments == Len(cm[1])
       IN  [m \in 1..Len(cm) |->
             [c \in 1..segments |->
               IF steps < segments /\ c > steps THEN cm[m][c - steps]
               ELSE [k \in 1..Components |-> 0]]]

\* the body of "for silo in parameters.silos" on the pair <<mass, chemistry>>
RECURSIVE ProcessSilos(_, _, _, _)
ProcessSilos(grids, silos, t, params) ==
  IF silos = <<>> THEN grids
  ELSE LET silo == Head(silos)
           quantity == quantity_at_time(silo, params.resolution_size)
           added ==
             IF is_active_at_time(silo, t, params.conveyor_velocity)
             THEN <<_add_material_to_conveyor(grids[1], silo.material_position,
                                              silo.silo_position, quantity),
                    IF grids[2] # NoMatrix
                    THEN _add_chemistry_to_conveyor(grids[2], silo.material_position,
                                                    silo.silo_position, quantity,
                                                    params.material_chemistry)
                    ELSE grids[2]>>
             ELSE grids
       IN  ProcessSilos(added, Tail(silos), t, params)

\* material_matrix[:, -1]
LastColumn(matrix) == [m \in 1..Len(matrix) |-> matrix[m][Len(matrix[m])]]

\* Record whose total column holds the first material only
RecordFirstOnly(matrix, t) ==
  LET material_flows == [m \in 1..Len(matrix) |-> matrix[m][Len(matrix[m])]]
  IN  material_flows \o <<t>> \o <<material_flows[1]>>

\* the row written when the grid is shifted before it is sampled
RecordAfterShift(matrix, t) ==
  LET material_flows == LastColumn(shift_matrix_right(matrix, 1))
      total_flow == SumSeq(material_flows)
  IN  material_flows \o <<t>> \o <<total_flow>>

\* the row written to flow_data[counter, :]
Record(matrix, t) ==
  LET material_flows == LastColumn(matrix)
      total_flow == SumSeq(material_flows)
  IN  material_flows \o <<t>> \o <<total_flow>>

\* flow_data[counter] bound to the array that every row written before
\* is bound to as well, instead of copied into the table
StoreRowAliased(data, k, row) ==
  [i \in 1..Len(data) |-> IF i <= k + 1 THEN row ELSE data[i]]

\* "flow_data[counter, :] = ...": the values are copied into row counter
StoreRow(data, k, row) == [data EXCEPT ![k + 1] = row]

\* step_size = max(1, round((velocity * dt) / resolution_size))
StepSize(params) ==
  Max(1, Round(params.conveyor_velocity * params.resolution_size,
               params.conveyor_velocity * params.resolution_size))

\* n_steps = int(total_time / dt)
NSteps(params) ==
  (params.total_time * params.conveyor_velocity) \div params.resolution_size

\* n_segments = int(conveyor.length / resolution_size)
NSegments(params) == params.conveyor_length \div params.resolution_size

\* the loop condition with time < total_time in the place of <=
LoopConditionStrict(t, k, params) ==
  /\ t < params.total_time * params.conveyor_velocity
  /\ k <= NSteps(params)

\* "time <= parameters.total_time and counter <= n_steps"
LoopCondition(t, k, params) ==
  /\ t <= params.total_time * params.conveyor_velocity
  /\ k <= NSteps(params)

\* chemistry tracking regardless of the engine flag
ChemistryAlways(bf, params) == TRUE

\* chemistry tracking is on: self.bf_initialized and hasattr(parameters, ...)
ChemistryEnabled(bf, params) == bf

RatSub[a \in Int \X Int, b \in Int \X Int] == RatAdd[a, <<-b[1], b[2]>>]

\* the factors are in lowest terms: cancel across before multiplying
RatMul[a \in Int \X Int, b \in Int \X Int] ==
  LET g == GCD[Abs(a[1]), b[2]]
      h == GCD[Abs(b[1]), a[2]]
  IN  Rat[(a[1] \div g) * (b[1] \div h), (a[2] \div h) * (b[2] \div g)]

RatDiv[a \in Int \X Int, b \in Int \X Int] ==
  RatMul[a, IF b[1] < 0 THEN <<-b[2], -b[1]>> ELSE <<b[2], b[1]>>]

RatLt(a, b) == a[1] * b[2] < b[1] * a[2]

\* Significant with >= in the place of >
SignificantOrEqual(total_flow, v) == RatLeq(Zero, Rat[total_flow, v])

\* "total_flow > 1e-6" on the scaled total of a belt of velocity v
Significant(total_flow, v) == RatLt(<<1, 1000000>>, Rat[total_flow, v])

\* the weighted average of component k over "for mat_idx, material_name in
\* enumerate(materials)", materials being the keys of material_chemistry
RECURSIVE Weighted(_, _, _, _)
Weighted(row, chemistry_data, k, mat_idx) ==
  IF mat_idx > Len(chemistry_data) THEN Zero
  ELSE LET rest == Weighted(row, chemistry_data, k, mat_idx + 1)
       IN  IF mat_idx - 1 < Len(row) - 2 /\ row[mat_idx] > 0
           THEN RatAdd[Rat[chemistry_data[mat_idx].chemistry[k] * row[mat_idx],
                           TotalColumn(row)],
                       rest]
           ELSE rest

\* basicity_b2 = weighted_cao / max(weighted_sio2, 0.1) if weighted_sio2 > 0.1 else 0
Basicity(weighted_cao, weighted_sio2) ==
  IF RatLt(<<1, 10>>, weighted_sio2)
  THEN RatDiv[weighted_cao,
              IF RatLt(weighted_sio2, <<1, 10>>) THEN <<1, 10>> ELSE weighted_sio2]
  ELSE Zero

\* the indices of the rows that get a trend point, in order
TrendRows(data, i, v) ==
  SelectSeq([n \in 1..(Len(data) - i + 1) |-> n + i - 1],
            LAMBDA n : Significant(TotalColumn(data[n]), v))

_calculate_chemistry_trends(cm, data, params) ==
  LET chemistry_data == params.material_chemistry
      rows == TrendRows(data, 1, params.conveyor_velocity)
      W(n, k) == Weighted(data[rows[n]], chemistry_data, k, 1)
  IN  [fe_trend |-> [n \in 1..Len(rows) |-> W(n, 1)],
       sio2_trend |-> [n \in 1..Len(rows) |-> W(n, 2)],
       cao_trend |-> [n \in 1..Len(rows) |-> W(n, 3)],
       mgo_trend |-> [n \in 1..Len(rows) |-> W(n, 4)],
       al2o3_trend |-> [n \in 1..Len(rows) |-> W(n, 5)],
       basicity_trend |-> [n \in 1..Len(rows) |-> Basicity(W(n, 3), W(n, 2))],
       time_points |-> [n \in 1..Len(rows) |-> TimeColumn(data[rows[n]])]]

\* np.mean and the square of np.std (the population variance)
Mean(s) == RatDiv[SumRat(s), <<Len(s), 1>>]

Variance(s) ==
  LET m == Mean(s)
      d == [n \in 1..Len(s) |-> RatSub[s[n], m]]
  IN  Mean([n \in 1..Len(s) |-> RatMul[d[n], d[n]]])

RatAbs(a) == <<Abs(a[1]), a[2]>>

\* _enhance_bf_results: the statistics added to the metadata; a standard
\* deviation is held as its square, so "std < 2.0" reads "variance < 4"
_enhance_bf_results(res, params) ==
  IF res.chemistry_trends # NoResults /\ res.chemistry_trends.fe_trend # <<>>
  THEN LET trends == res.chemistry_trends IN
       [res EXCEPT !.metadata.bf_statistics =
         [avg_fe_content |-> Mean(trends.fe_trend),
          fe_std_squared |-> Variance(trends.fe_trend),
          avg_basicity |-> Mean(trends.basicity_trend),
          basicity_std_squared |-> Variance(trends.basicity_trend),
          fe_stability |->
            IF RatLt(Variance(trends.fe_trend), <<4, 1>>) THEN "Good" ELSE "Poor",
          basicity_quality |->
            IF RatLt(RatAbs(RatSub[Mean(trends.basicity_trend), <<11, 10>>]), <<1, 10>>)
            THEN "Good" ELSE "Poor"]]
  ELSE res

\* the SimulationResults built at the end of run_simulation (lines 104-136);
\* chemistry_trends defaults to an empty dict, held as NoResults
MakeResults(matrix, data, cm, k, t, params, bf) ==
  LET trimmed == SubSeq(data, 1, k) IN
  [material_matrix |-> matrix,
   flow_data |-> trimmed,
   proportion_data |-> calculate_proportions(trimmed).value,
   parameters |-> params,
   metadata |-> [dt |-> Rat[params.resolution_size, params.conveyor_velocity],
                 n_steps |-> k,
                 step_size |-> StepSize(params),
                 final_time |-> t - params.resolution_size,
                 mass_balance |-> calculate_mass_balance(trimmed),
                 bf_mode |-> bf,
                 bf_statistics |-> NoResults],
   chemistry_matrix |-> cm,
   chemistry_trends |->
     IF cm # NoMatrix THEN _calculate_chemistry_trends(cm, trimmed, params)
     ELSE NoResults]

(***************************************************************************)
(* The operations.  pc is the position of the caller: "new" before the     *)
(* dataclass constructors ran, "ValueError" when one of them raised,       *)
(* "ready" with an idle engine, "loop" inside run_simulation's while loop, *)
(* "enhance" when run_simulation returned into run_bf_simulation, "done"   *)
(* when the call returned its results, "ValidationError" when the call     *)
(* raised.  entry is the public method of the call in progress and    *)
(* calls the number of calls the caller still makes.                       *)
(***************************************************************************)
Idle == pc \in {"ready", "done", "ValidationError"}

Constructible(c) ==
  /\ \A i \in DOMAIN c.silos : Silo_validate_parameters(c.silos[i])
  /\ SimulationParameters_validate_parameters(c)

\* Silo(...) for every silo, then SimulationParameters(...)
Construct ==
  /\ pc = "new"
  /\ pc' = IF \A i \in DOMAIN candidates : Constructible(candidates[i])
           THEN "ready" ELSE "ValueError"
  /\ UNCHANGED <<candidates, entry, calls, bf_initialized, parameters,
                 material_matrix, flow_data, chemistry_matrix, counter, time,
                 results, first, table, proportions_out, other, bunker, transfer_bin>>

initialize_blast_furnace ==
  /\ Idle
  /\ bf_initialized' = TRUE
  /\ UNCHANGED <<candidates, pc, entry, calls, parameters,
                 material_matrix, flow_data, chemistry_matrix, counter, time,
                 results, first, table, proportions_out, other, bunker, transfer_bin>>

\* Start with the allocation moved in front of the validation
StartAllocatesFirst(params, bf) ==
  /\ parameters' = params
  /\ counter' = 0
  /\ time' = 0
  /\ results' = NoResults
  /\ material_matrix' = ZeroMatrix(Len(params.materials), NSegments(params))
  /\ flow_data' = ZeroMatrix(NSteps(params) + 1, Len(params.materials) + 2)
  /\ chemistry_matrix' = NoMatrix
  /\ pc' = IF validate_parameters(params) # None THEN "ValidationError" ELSE "loop"

\* run_simulation lines 40-66 with the engine flag bf: validate, then
\* allocate; a ValidationError leaves the call without locals and result
Start(params, bf) ==
  /\ parameters' = params
  /\ counter' = 0
  /\ time' = 0
  /\ results' = NoResults
  /\ IF validate_parameters(params) # None
     THEN /\ pc' = "ValidationError"
          /\ material_matrix' = NoMatrix
          /\ flow_data' = NoMatrix
          /\ chemistry_matrix' = NoMatrix
     ELSE /\ pc' = "loop"
          /\ material_matrix' = ZeroMatrix(Len(params.materials), NSegments(params))
          /\ flow_data' = ZeroMatrix(NSteps(params) + 1, Len(params.materials) + 2)
          /\ chemistry_matrix' =
               IF ChemistryEnabled(bf, params)
               THEN _initialize_chemistry_tracking(Len(params.materials),
                                                   NSegments(params),
                                                   params.material_chemistry)
               ELSE NoMatrix

run_simulation ==
  /\ Idle
  /\ calls > 0
  /\ \E i \in DOMAIN candidates :
       /\ Start(candidates[i], bf_initialized)
       /\ entry' = "run_simulation"
       /\ calls' = calls - 1
  /\ UNCHANGED <<candidates, bf_initialized, first, table, proportions_out, other, bunker, transfer_bin>>

\* run_bf_simulation lines 142-146
run_bf_simulation ==
  /\ Idle
  /\ calls > 0
  /\ \E i \in DOMAIN candidates :
       /\ bf_initialized' = TRUE
       /\ Start(candidates[i], TRUE)
       /\ entry' = "run_bf_simulation"
       /\ calls' = calls - 1
  /\ UNCHANGED <<candidates, first, table, proportions_out, other, bunker, transfer_bin>>

\* one pass of the while loop, lines 68-102
LoopIteration ==
  /\ pc = "loop"
  /\ LoopCondition(time, counter, parameters)
  /\ LET grids == ProcessSilos(<<material_matrix, chemistry_matrix>>,
                               parameters.silos, time, parameters)
         step_size == StepSize(parameters)
     IN  /\ flow_data' = StoreRow(flow_data, counter, Record(grids[1], time))
         /\ material_matrix' = shift_matrix_right(grids[1], step_size)
         /\ chemistry_matrix' =
              IF grids[2] # NoMatrix
              THEN _shift_chemistry_matrix(grids[2], step_size)
              ELSE grids[2]
  /\ time' = time + parameters.resolution_size
  /\ counter' = counter + 1
  /\ UNCHANGED <<candidates, pc, entry, calls, bf_initialized, parameters,
                 results, first, table, proportions_out, other, bunker, transfer_bin>>

\* the loop condition fails: lines 104-136; run_simulation returns, to its
\* caller or into line 149 of run_bf_simulation
LoopExit ==
  /\ pc = "loop"
  /\ ~LoopCondition(time, counter, parameters)
  /\ LET res == MakeResults(material_matrix, flow_data, chemistry_matrix,
                            counter, time, parameters, bf_initialized)
     IN  /\ results' = res
         /\ flow_data' = res.flow_data
  /\ first' = [i \in DOMAIN first |->
                IF /\ entry = "run_simulation"
                   /\ candidates[i] = parameters
                   /\ first[i] = NoResults
                THEN results'
                ELSE first[i]]
  /\ pc' = IF entry = "run_bf_simulation" THEN "enhance" ELSE "done"
  /\ UNCHANGED <<candidates, entry, calls, bf_initialized, parameters,
                 material_matrix, chemistry_matrix, counter, time,
                 table, proportions_out, other, bunker, transfer_bin>>

\* run_bf_simulation lines 148-152: the results of run_simulation enhanced
EnhanceResults ==
  /\ pc = "enhance"
  /\ results' = _enhance_bf_results(results, parameters)
  /\ pc' = "done"
  /\ UNCHANGED <<candidates, entry, calls, bf_initialized, parameters,
                 material_matrix, flow_data, chemistry_matrix, counter, time,
                 first, table, proportions_out, other, bunker, transfer_bin>>

\* MatrixCalculator.calculate_proportions applied to a given flow table
ApplyCalculateProportions ==
  /\ pc = "table"
  /\ proportions_out' = calculate_proportions(table)
  /\ pc' = "calculated"
  /\ UNCHANGED <<candidates, entry, calls, bf_initialized, parameters,
                 material_matrix, flow_data, chemistry_matrix, counter, time,
                 results, first, table, other, bunker, transfer_bin>>

(***************************************************************************)
(* A second SimulationWorker (ui/main_window.py): it owns an engine, and   *)
(* the locals of its run_simulation call, in the record other.             *)
(***************************************************************************)
\* SimulationWorker.__init__ and SimulationEngine.__init__
SimulationWorker(params, use_bf_mode) ==
  [pc |-> "ready", use_bf_mode |-> use_bf_mode, bf_initialized |-> FALSE,
   parameters |-> params, material_matrix |-> NoMatrix, flow_data |-> NoMatrix,
   chemistry_matrix |-> NoMatrix, counter |-> 0, time |-> 0, results |-> NoResults]

\* the grid of a run that works on whatever grid another run allocated
SharedGrid(local, foreign) ==
  IF foreign # NoMatrix /\ Len(foreign) = Len(local) /\ Len(foreign[1]) = Len(local[1])
  THEN foreign
  ELSE local

\* material_matrix is a local of run_simulation (line 51): the grid a run
\* works on is its own, whatever grid (foreign) another run holds
LocalGrid(local, foreign) == local

\* the variables of the first engine and its caller
engine == <<candidates, pc, entry, calls, bf_initialized, parameters,
            material_matrix, flow_data, chemistry_matrix, counter, time,
            results, first, table, proportions_out>>

\* SimulationWorker.run up to the loop: initialize_blast_furnace in BF
\* mode, then run_simulation lines 40-66
WorkerRun ==
  /\ pc \notin {"new", "ValueError"}
  /\ other.pc = "ready"
  /\ LET params == other.parameters
         bf == other.use_bf_mode
     IN  other' =
           IF validate_parameters(params) # None
           THEN [other EXCEPT !.pc = "ValidationError", !.bf_initialized = bf]
           ELSE [other EXCEPT
                   !.pc = "loop",
                   !.bf_initialized = bf,
                   !.material_matrix =
                      ZeroMatrix(Len(params.materials), NSegments(params)),
                   !.flow_data =
                      ZeroMatrix(NSteps(params) + 1, Len(params.materials) + 2),
                   !.chemistry_matrix =
                      IF ChemistryEnabled(bf, params)
                      THEN _initialize_chemistry_tracking(Len(params.materials),
                                                          NSegments(params),
                                                          params.material_chemistry)
                      ELSE NoMatrix]
  /\ UNCHANGED <<engine, bunker, transfer_bin>>

\* one pass of the while loop of the worker's run, lines 68-102
WorkerLoopIteration ==
  /\ other.pc = "loop"
  /\ LoopCondition(other.time, other.counter, other.parameters)
  /\ LET grids == ProcessSilos(<<LocalGrid(other.material_matrix, material_matrix),
                                 other.chemistry_matrix>>,
                               other.parameters.silos, other.time, other.parameters)
         step_size == StepSize(other.parameters)
     IN  other' =
           [other EXCEPT
              !.flow_data = StoreRow(@, other.counter, Record(grids[1], other.time)),
              !.material_matrix = shift_matrix_right(grids[1], step_size),
              !.chemistry_matrix =
                 IF grids[2] # NoMatrix
                 THEN _shift_chemistry_matrix(grids[2], step_size)
                 ELSE grids[2],
              !.time = @ + other.parameters.resolution_size,
              !.counter = @ + 1]
  /\ UNCHANGED <<engine, bunker, transfer_bin>>

\* the worker's run_simulation returns, lines 104-136
WorkerLoopExit ==
  /\ other.pc = "loop"
  /\ ~LoopCondition(other.time, other.counter, other.parameters)
  /\ LET res == MakeResults(other.material_matrix, other.flow_data,
                            other.chemistry_matrix, other.counter, other.time,
                            other.parameters, other.bf_initialized)
     IN  other' = [other EXCEPT
                    !.results = res,
                    !.flow_data = res.flow_data,
                    !.pc = IF other.use_bf_mode THEN "enhance" ELSE "done"]
  /\ UNCHANGED <<engine, bunker, transfer_bin>>

\* run_bf_simulation lines 148-152 in the worker, then finished.emit
WorkerEnhance ==
  /\ other.pc = "enhance"
  /\ other' = [other EXCEPT
                 !.results = _enhance_bf_results(other.results, other.parameters),
                 !.pc = "done"]
  /\ UNCHANGED <<engine, bunker, transfer_bin>>

(***************************************************************************)
(* Inputs.  The arguments handed to the constructors, valid or not.        *)
(***************************************************************************)
ChemA == [name |-> "A", chemistry |-> <<60, 4, 2, 1, 1>>]

ChemB == [name |-> "B", chemistry |-> <<0, 2, 50, 3, 0>>]

MaterialLists == {<<>>, <<"A">>, <<"A", "B">>, <<"A", "A">>}

SiloSet ==
  [material : {"A"}, capacity : {2, 5}, flow_rate : {1, 2},
   material_position : 0..1, silo_position : 0..(MaxLength - 1),
   start_time : {0, 2, 4}]

SecondSiloSet ==
  [material : {"B"}, capacity : {2}, flow_rate : {1, 2},
   material_position : 0..1, silo_position : {0, MaxLength - 1},
   start_time : {0, 1}]

SiloLists ==
  {<<>>} \cup {<<s>> : s \in SiloSet}
         \cup {<<s, t>> : s \in SecondSiloSet, t \in SecondSiloSet}

\* arguments on which a constructor raises ValueError, next to good ones
BadSiloSet ==
  [material : {"A"}, capacity : {0, 2}, flow_rate : {0, 1},
   material_position : {-1, 0}, silo_position : {-1, 0},
   start_time : {-1, 0}]

GoodSilo ==
  [material |-> "A", capacity |-> 2, flow_rate |-> 1,
   material_position |-> 0, silo_position |-> 0, start_time |-> 0]

GeneralInputs ==
  [total_time : 1..MaxTime, conveyor_length : 1..MaxLength,
   resolution_size : 1..2, conveyor_velocity : 1..2,
   materials : MaterialLists, silos : SiloLists,
   material_chemistry : {<<ChemA, ChemB>>}]

ConstructorInputs ==
  [total_time : {0, 1}, conveyor_length : {0, 2},
   resolution_size : {0, 1}, conveyor_velocity : {0, 1},
   materials : {<<"A">>}, silos : {<<GoodSilo>>},
   material_chemistry : {<<>>}]
  \cup
  [total_time : {2}, conveyor_length : {2},
   resolution_size : {1}, conveyor_velocity : {1},
   materials : {<<"A">>}, silos : {<<s>> : s \in BadSiloSet},
   material_chemistry : {<<>>}]

\* a silo that starts after the end of the simulation and meets every
\* other requirement (its window is half a second)
LateSilo(pos) ==
  [material |-> "A", capacity |-> 1, flow_rate |-> 2,
   material_position |-> 0, silo_position |-> pos, start_time |-> MaxTime + 1]

LateStartInputs ==
  [total_time : {MaxTime}, conveyor_length : {2},
   resolution_size : {1}, conveyor_velocity : {1, 2},
   materials : {<<"A">>, <<"A", "B">>},
   silos : {<<LateSilo(0)>>, <<LateSilo(1)>>,
            <<GoodSilo, LateSilo(0)>>, <<LateSilo(1), GoodSilo>>},
   material_chemistry : {<<ChemA, ChemB>>}]

Inputs == GeneralInputs \cup ConstructorInputs \cup LateStartInputs

\* everything but the inputs, before the constructors and the first call
Fresh(budget) ==
  /\ entry = None
  /\ calls = budget
  /\ bf_initialized = FALSE
  /\ parameters = NoResults
  /\ material_matrix = NoMatrix
  /\ flow_data = NoMatrix
  /\ chemistry_matrix = NoMatrix
  /\ counter = 0
  /\ time = 0
  /\ results = NoResults
  /\ first = [i \in DOMAIN candidates |-> NoResults]
  /\ proportions_out = NoResults

Init ==
  /\ candidates \in {<<p>> : p \in Inputs}
  /\ Fresh(1)
  /\ pc = "new"
  /\ table = NoMatrix
  /\ other = NoResults
  /\ bunker = NoResults
  /\ transfer_bin = NoResults

Next ==
  \/ Construct
  \/ initialize_blast_furnace
  \/ run_simulation
  \/ run_bf_simulation
  \/ LoopIteration
  \/ LoopExit
  \/ EnhanceResults

Spec == Init /\ [][Next]_vars

(***************************************************************************)
(* Scenario A of the test plan: one material, one source at the inlet of a *)
(* 10 m belt, 1 m cells, 1 m/s, 20 s, flow rate 10, for several capacities.*)
(***************************************************************************)
ScenarioA(capacity) ==
  [total_time |-> 20, conveyor_length |-> 10,
   resolution_size |-> 1, conveyor_velocity |-> 1,
   materials |-> <<"A">>,
   silos |-> <<[material |-> "A", capacity |-> capacity, flow_rate |-> 10,
                material_position |-> 0, silo_position |-> 0,
                start_time |-> 0]>>,
   material_chemistry |-> <<ChemA>>]

InitScenarioA ==
  /\ candidates \in {<<ScenarioA(c)>> : c \in {100, 200, 300, 1000}}
  /\ Fresh(1)
  /\ pc = "new"
  /\ table = NoMatrix
  /\ other = NoResults
  /\ bunker = NoResults
  /\ transfer_bin = NoResults

SpecScenarioA == InitScenarioA /\ [][Next]_vars

(***************************************************************************)
(* Several calls on one engine, each with one of two parameter sets.       *)
(***************************************************************************)
SiloB ==
  [material |-> "B", capacity |-> 2, flow_rate |-> 2,
   material_position |-> 1, silo_position |-> 1, start_time |-> 1]

HistoryInputs ==
  [total_time : {2}, conveyor_length : {2},
   resolution_size : {1}, conveyor_velocity : {1},
   materials : {<<"A", "B">>},
   silos : {<<GoodSilo>>, <<GoodSilo, SiloB>>, <<SiloB>>},
   material_chemistry : {<<ChemA, ChemB>>}]

InitHistory ==
  /\ candidates \in {<<p, q>> : p \in HistoryInputs, q \in HistoryInputs}
  /\ Fresh(MaxCalls)
  /\ pc = "new"
  /\ table = NoMatrix
  /\ other = NoResults
  /\ bunker = NoResults
  /\ transfer_bin = NoResults

SpecHistory == InitHistory /\ [][Next]_vars

(***************************************************************************)
(* Two workers at once: the caller of the first engine makes one call, the *)
(* second worker runs one of the two parameter sets in either mode, and    *)
(* the two runs interleave at the loop iterations.                         *)
(***************************************************************************)
InitTwo ==
  /\ candidates \in {<<p, q>> : p \in HistoryInputs, q \in HistoryInputs}
  /\ Fresh(1)
  /\ pc = "new"
  /\ table = NoMatrix
  /\ other \in {SimulationWorker(candidates[i], mode) : i \in 1..2, mode \in BOOLEAN}
  /\ bunker = NoResults
  /\ transfer_bin = NoResults

NextTwo ==
  \/ Next
  \/ WorkerRun
  \/ WorkerLoopIteration
  \/ WorkerLoopExit
  \/ WorkerEnhance

SpecTwo == InitTwo /\ [][NextTwo]_vars

(***************************************************************************)
(* Runs to their end: every total time, belt length, cell size and         *)
(* velocity, with one or two sources; the thread that runs a call goes on  *)
(* while it has a statement to execute.                                    *)
(***************************************************************************)
LoopInputs ==
  [total_time : 1..MaxTime, conveyor_length : 1..MaxLength,
   resolution_size : 1..2, conveyor_velocity : 1..2,
   materials : {<<"A", "B">>},
   silos : {<<GoodSilo>>, <<GoodSilo, SiloB>>},
   material_chemistry : {<<ChemA, ChemB>>}]

InitLoop ==
  /\ candidates \in {<<p>> : p \in LoopInputs}
  /\ Fresh(1)
  /\ pc = "new"
  /\ table = NoMatrix
  /\ other = NoResults
  /\ bunker = NoResults
  /\ transfer_bin = NoResults

SpecLoop ==
  /\ InitLoop
  /\ [][Next]_vars
  /\ WF_vars(LoopIteration)
  /\ WF_vars(LoopExit)
  /\ WF_vars(EnhanceResults)

(***************************************************************************)
(* Runs whose material_chemistry mapping has its keys in the order of the  *)
(* material list or in the other order.                                    *)
(***************************************************************************)
KeyOrderInputs ==
  [total_time : 1..MaxTime, conveyor_length : 1..2,
   resolution_size : {1}, conveyor_velocity : {1},
   materials : {<<"A", "B">>},
   silos : {<<GoodSilo>>, <<GoodSilo, SiloB>>, <<SiloB>>},
   material_chemistry : {<<ChemA, ChemB>>, <<ChemB, ChemA>>}]

InitKeyOrder ==
  /\ candidates \in {<<p>> : p \in KeyOrderInputs}
  /\ Fresh(1)
  /\ pc = "new"
  /\ table = NoMatrix
  /\ other = NoResults
  /\ bunker = NoResults
  /\ transfer_bin = NoResults

SpecKeyOrder == InitKeyOrder /\ [][Next]_vars

(***************************************************************************)
(* Runs whose first material carries no silica: a flux of 54 % CaO and     *)
(* 1 % MgO, alone on the belt or next to material B.                       *)
(***************************************************************************)
ChemFlux == [name |-> "A", chemistry |-> <<0, 0, 54, 1, 0>>]

TraceSilicaInputs ==
  [total_time : 1..MaxTime, conveyor_length : 1..MaxLength,
   resolution_size : {1}, conveyor_velocity : {1, 2},
   materials : {<<"A", "B">>},
   silos : {<<GoodSilo>>, <<GoodSilo, SiloB>>, <<SiloB>>},
   material_chemistry : {<<ChemFlux, ChemB>>}]

InitTraceSilica ==
  /\ candidates \in {<<p>> : p \in TraceSilicaInputs}
  /\ Fresh(1)
  /\ pc = "new"
  /\ table = NoMatrix
  /\ other = NoResults
  /\ bunker = NoResults
  /\ transfer_bin = NoResults

SpecTraceSilica == InitTraceSilica /\ [][Next]_vars

(***************************************************************************)
(* simulation/bf_bunker_viz.py: MaterialLayer and BlastFurnaceBunker.      *)
(* Areas are in units of pi/4 m^2 and volumes in units of pi/4 m^3, so     *)
(* that cross_section = pi * (diameter / 2) ** 2 is diameter squared and   *)
(* every height is an exact rational number of metres.                     *)
(***************************************************************************)
ZeroDivisionError == "ZeroDivisionError"

\* a / b on Python numbers
TrueDiv(a, b) == IF b = 0 THEN ZeroDivisionError ELSE Rat[a, b]

\* chemistry.get(key, 0)
Get(chemistry, key) == IF key \in DOMAIN chemistry THEN chemistry[key] ELSE 0

\* basicity_b2 without the test of the divisor
basicity_b2_unguarded(self) == TrueDiv(self.cao_content, self.sio2_content)

\* MaterialLayer.basicity_b2
basicity_b2(self) ==
  IF self.sio2_content > 0
  THEN TrueDiv(self.cao_content, self.sio2_content)
  ELSE Zero

\* MaterialLayer.basicity_b4
basicity_b4(self) ==
  LET basic == self.cao_content + self.mgo_content
      acidic == self.sio2_content + self.al2o3_content
  IN  IF acidic > 0 THEN TrueDiv(basic, acidic) ELSE Zero

\* BlastFurnaceBunker(bunker_id, diameter, height): no layers yet
BlastFurnaceBunker(diameter, height) ==
  [diameter |-> diameter, height |-> height, layers |-> <<>>]

\* pi * (diameter / 2) ** 2, in units of pi/4
cross_section(self) == <<self.diameter * self.diameter, 1>>

\* sum(layer.height for layer in self.layers)
current_top(self) == SumRat([i \in 1..Len(self.layers) |-> self.layers[i].height])

MaterialLayer(material_name, volume, height, position, timestamp, chemistry) ==
  [material_name |-> material_name, volume |-> volume, height |-> height,
   position |-> position, timestamp |-> timestamp,
   fe_content |-> Get(chemistry, "Fe"),
   sio2_content |-> Get(chemistry, "SiO2"),
   cao_content |-> Get(chemistry, "CaO"),
   mgo_content |-> Get(chemistry, "MgO"),
   al2o3_content |-> Get(chemistry, "Al2O3")]

\* add_material_layer without the overflow protection
add_material_layer_unprotected(self, material_name, volume, chemistry, timestamp) ==
  [self EXCEPT !.layers =
     Append(@, MaterialLayer(material_name, volume,
                             RatDiv[volume, cross_section(self)],
                             current_top(self), timestamp, chemistry))]

\* BlastFurnaceBunker.add_material_layer: the bunker after the call
add_material_layer(self, material_name, volume, chemistry, timestamp) ==
  LET layer_height == RatDiv[volume, cross_section(self)]
      top == current_top(self)
      overflow == RatLt(<<self.height, 1>>, RatAdd[top, layer_height])
      height == IF overflow THEN RatSub[<<self.height, 1>>, top] ELSE layer_height
      vol == IF overflow THEN RatMul[height, cross_section(self)] ELSE volume
  IN  [self EXCEPT !.layers =
         Append(@, MaterialLayer(material_name, vol, height, top,
                                 timestamp, chemistry))]

\* the materials delivered to a bunker, each with its chemistry mapping
BunkerMaterials ==
  {[name |-> "Ore", chemistry |-> [Fe |-> 60, SiO2 |-> 4, CaO |-> 2, MgO |-> 1, Al2O3 |-> 1]],
   [name |-> "Flux", chemistry |-> [CaO |-> 54, MgO |-> 1]],
   [name |-> "Bauxite", chemistry |-> [Fe |-> 0, SiO2 |-> 0, CaO |-> 3, MgO |-> 1, Al2O3 |-> 2]]}

\* the volumes delivered, in units of pi/4 m^3
BunkerVolumes == {<<0, 1>>, <<1, 1>>, <<3, 2>>, <<5, 1>>}

\* one call of add_material_layer; the k-th call is made at time k - 1
AddMaterialLayer ==
  /\ pc = "bunker"
  /\ Len(bunker.layers) < MaxLayers
  /\ \E material \in BunkerMaterials, volume \in BunkerVolumes :
       bunker' = add_material_layer(bunker, material.name, volume,
                                    material.chemistry, Len(bunker.layers))
  /\ UNCHANGED <<engine, other, transfer_bin>>

InitBunker ==
  /\ candidates = <<>>
  /\ Fresh(0)
  /\ pc = "bunker"
  /\ table = NoMatrix
  /\ other = NoResults
  /\ bunker \in {BlastFurnaceBunker(diameter, height) :
                   diameter \in 1..2, height \in 1..MaxHeight}
  /\ transfer_bin = NoResults

NextBunker == AddMaterialLayer

SpecBunker == InitBunker /\ [][NextBunker]_vars

(***************************************************************************)
(* simulation/bf_conveyor_bunker_integration.py: TransferBin.  Volumes are *)
(* exact rationals; a layer is the dict the bin stores.                    *)
(***************************************************************************)
\* TransferBin(bin_id, capacity): empty
TransferBin(capacity) ==
  [capacity |-> capacity, current_volume |-> Zero, material_layers |-> <<>>]

\* add_material without the overflow branch
add_material_unchecked(self, material_name, volume, chemistry, timestamp) ==
  [self EXCEPT
     !.material_layers =
        Append(@, [material_name |-> material_name, volume |-> volume,
                   chemistry |-> chemistry, timestamp |-> timestamp]),
     !.current_volume = RatAdd[@, volume]]

\* TransferBin.add_material: the bin after the call
add_material(self, material_name, volume, chemistry, timestamp) ==
  LET room == RatSub[<<self.capacity, 1>>, self.current_volume]
      vol == IF RatLt(<<self.capacity, 1>>, RatAdd[self.current_volume, volume])
             THEN room ELSE volume
  IN  IF RatLt(Zero, vol)
      THEN [self EXCEPT
              !.material_layers =
                 Append(@, [material_name |-> material_name, volume |-> vol,
                            chemistry |-> chemistry, timestamp |-> timestamp]),
              !.current_volume = RatAdd[@, vol]]
      ELSE self

\* the while loop of discharge_material: the bin and the list returned
\* when the loop is left
RECURSIVE DischargeLoop(_, _, _)
DischargeLoop(self, discharged_materials, remaining_discharge) ==
  IF ~(RatLt(Zero, remaining_discharge) /\ self.material_layers # <<>>)
  THEN [bin |-> self, discharged |-> discharged_materials]
  ELSE LET layer == Head(self.material_layers) IN
       IF RatLeq(layer.volume, remaining_discharge)
       THEN DischargeLoop(
              [self EXCEPT !.current_volume = RatSub[@, layer.volume],
                           !.material_layers = Tail(@)],
              Append(discharged_materials, layer),
              RatSub[remaining_discharge, layer.volume])
       ELSE DischargeLoop(
              [self EXCEPT
                 !.current_volume = RatSub[@, remaining_discharge],
                 !.material_layers =
                    <<[layer EXCEPT !.volume = RatSub[@, remaining_discharge]]>>
                      \o Tail(@)],
              Append(discharged_materials,
                     [layer EXCEPT !.volume = remaining_discharge]),
              Zero)

\* discharge_material that empties the bin whatever volume is asked for
discharge_material_all(self, volume_to_discharge) ==
  DischargeLoop(self, <<>>, <<self.capacity, 1>>)

\* TransferBin.discharge_material
discharge_material(self, volume_to_discharge) ==
  DischargeLoop(self, <<>>, volume_to_discharge)

\* what the conveyor delivers to a bin and what is asked from it
BinMaterials ==
  {[name |-> "Ore", chemistry |-> [Fe |-> 60, SiO2 |-> 4, CaO |-> 2, MgO |-> 1, Al2O3 |-> 1]],
   [name |-> "Flux", chemistry |-> [CaO |-> 54, MgO |-> 1]]}

BinVolumes == {<<1, 2>>, <<1, 1>>, <<3, 1>>}

DischargeVolumes == {<<1, 2>>, <<2, 1>>, <<5, 1>>}

BinCapacities == {2, 4}

\* one call of add_material; the k-th call on the bin is made at time k - 1
AddMaterial ==
  /\ pc = "bin"
  /\ calls > 0
  /\ \E material \in BinMaterials, volume \in BinVolumes :
       /\ transfer_bin' = add_material(transfer_bin, material.name, volume,
                                       material.chemistry, MaxOps - calls)
       /\ results' = [op |-> "add_material", volume |-> volume,
                      before |-> transfer_bin, discharged |-> <<>>]
  /\ calls' = calls - 1
  /\ UNCHANGED <<candidates, pc, entry, bf_initialized, parameters,
                 material_matrix, flow_data, chemistry_matrix, counter, time,
                 first, table, proportions_out, other, bunker>>

\* one call of discharge_material, and the list it returns
DischargeMaterial ==
  /\ pc = "bin"
  /\ calls > 0
  /\ \E volume \in DischargeVolumes :
       LET out == discharge_material(transfer_bin, volume)
       IN  /\ transfer_bin' = out.bin
           /\ results' = [op |-> "discharge_material", volume |-> volume,
                          before |-> transfer_bin, discharged |-> out.discharged]
  /\ calls' = calls - 1
  /\ UNCHANGED <<candidates, pc, entry, bf_initialized, parameters,
                 material_matrix, flow_data, chemistry_matrix, counter, time,
                 first, table, proportions_out, other, bunker>>

InitBin ==
  /\ candidates = <<>>
  /\ Fresh(MaxOps)
  /\ pc = "bin"
  /\ table = NoMatrix
  /\ other = NoResults
  /\ bunker = NoResults
  /\ transfer_bin \in {TransferBin(capacity) : capacity \in BinCapacities}

NextBin == AddMaterial \/ DischargeMaterial

SpecBin == InitBin /\ [][NextBin]_vars

(***************************************************************************)
(* ConveyorToBunkerSystem: a transfer bin that is fed by the conveyor and  *)
(* discharges into a bunker, by itself at the high trigger or on request.  *)
(***************************************************************************)
\* bin_level_high_trigger = 0.8 and bin_level_low_trigger = 0.2
bin_level_high_trigger == <<4, 5>>

bin_level_low_trigger == <<1, 5>>

\* "for material_data in discharged_materials: self.bunker.add_material_layer(...)"
RECURSIVE AddLayers(_, _, _)
AddLayers(self, discharged_materials, timestamp) ==
  IF discharged_materials = <<>> THEN self
  ELSE LET material_data == Head(discharged_materials)
       IN  AddLayers(add_material_layer(self, material_data.material_name,
                                        material_data.volume,
                                        material_data.chemistry, timestamp),
                     Tail(discharged_materials), timestamp)

\* discharge_to_bunker: the bin and the bunker after the call
discharge_to_bunker(bin, bk, volume, timestamp) ==
  LET out == discharge_material(bin, volume)
  IN  [transfer_bin |-> out.bin,
       bunker |-> AddLayers(bk, out.discharged, timestamp)]

\* _check_auto_discharge
_check_auto_discharge(bin, bk, current_time) ==
  LET fill_ratio == RatDiv[bin.current_volume, <<bin.capacity, 1>>]
  IN  IF RatLeq(bin_level_high_trigger, fill_ratio)
      THEN discharge_to_bunker(bin, bk,
                               RatMul[RatSub[fill_ratio, bin_level_low_trigger],
                                      <<bin.capacity, 1>>],
                               current_time)
      ELSE [transfer_bin |-> bin, bunker |-> bk]

\* manual_discharge_to_bunker
manual_discharge_to_bunker(bin, bk, volume, timestamp) ==
  discharge_to_bunker(bin, bk,
                      IF RatLt(bin.current_volume, volume)
                      THEN bin.current_volume ELSE volume,
                      timestamp)

\* the keys of material_chemistry_db, in order, with their chemistry
material_chemistry_db ==
  <<[name |-> "Ore", chemistry |-> [Fe |-> 60, SiO2 |-> 4, CaO |-> 2, MgO |-> 1, Al2O3 |-> 1]],
    [name |-> "Flux", chemistry |-> [CaO |-> 54, MgO |-> 1]]>>

\* _add_conveyor_materials_to_bin for the volumes flow_rate * dt / density
\* of the material columns of one flow row
RECURSIVE _add_conveyor_materials_to_bin(_, _, _, _)
_add_conveyor_materials_to_bin(bin, volumes, i, timestamp) ==
  IF i > Len(volumes) THEN bin
  ELSE _add_conveyor_materials_to_bin(
         IF RatLt(Zero, volumes[i]) /\ i <= Len(material_chemistry_db)
         THEN add_material(bin, material_chemistry_db[i].name, volumes[i],
                           material_chemistry_db[i].chemistry, timestamp)
         ELSE bin,
         volumes, i + 1, timestamp)

\* the volumes of the two material columns of a flow row; a row without
\* flow feeds nothing
FlowVolumes ==
  {<<a, b>> : a \in {Zero, <<1, 1>>, <<3, 1>>}, b \in {Zero, <<1, 1>>, <<3, 1>>}}

ManualVolumes == {<<1, 1>>, <<5, 1>>}

\* one pass of the loop of process_conveyor_discharge over a flow row: the
\* bin is fed, then checked for an automatic discharge
ProcessConveyorDischarge ==
  /\ pc = "system"
  /\ calls > 0
  /\ \E volumes \in FlowVolumes :
       LET fed == _add_conveyor_materials_to_bin(transfer_bin, volumes, 1,
                                                 MaxOps - calls)
           out == _check_auto_discharge(fed, bunker, MaxOps - calls)
       IN  /\ transfer_bin' = out.transfer_bin
           /\ bunker' = out.bunker
           /\ results' = [op |-> "process_conveyor_discharge",
                          bin_before |-> fed, bunker_before |-> bunker]
  /\ calls' = calls - 1
  /\ UNCHANGED <<candidates, pc, entry, bf_initialized, parameters,
                 material_matrix, flow_data, chemistry_matrix, counter, time,
                 first, table, proportions_out, other>>

\* the operator asks for a discharge; the widget passes timestamp 0
ManualDischargeToBunker ==
  /\ pc = "system"
  /\ calls > 0
  /\ \E volume \in ManualVolumes :
       LET out == manual_discharge_to_bunker(transfer_bin, bunker, volume, 0)
       IN  /\ transfer_bin' = out.transfer_bin
           /\ bunker' = out.bunker
           /\ results' = [op |-> "manual_discharge_to_bunker",
                          bin_before |-> transfer_bin, bunker_before |-> bunker]
  /\ calls' = calls - 1
  /\ UNCHANGED <<candidates, pc, entry, bf_initialized, parameters,
                 material_matrix, flow_data, chemistry_matrix, counter, time,
                 first, table, proportions_out, other>>

InitSystem ==
  /\ candidates = <<>>
  /\ Fresh(MaxOps)
  /\ pc = "system"
  /\ table = NoMatrix
  /\ other = NoResults
  /\ bunker \in {BlastFurnaceBunker(2, height) : height \in 1..MaxHeight}
  /\ transfer_bin \in {TransferBin(capacity) : capacity \in BinCapacities}

NextSystem == ProcessConveyorDischarge \/ ManualDischargeToBunker

SpecSystem == InitSystem /\ [][NextSystem]_vars

(***************************************************************************)
(* calculate_proportions on arbitrary flow tables: every table of 1 to     *)
(* MaxRows rows of 0, 1 or 2 material columns, a time and a total column.  *)
(***************************************************************************)
CellValues == {-1, 0, 1, 3}

RowsOfWidth(n_materials) ==
  {m \o <<0, total>> : m \in [1..n_materials -> CellValues], total \in CellValues}

Tables ==
  UNION {[1..n -> RowsOfWidth(w)] : n \in 1..MaxRows, w \in 0..2}

InitCalc ==
  /\ candidates = <<>>
  /\ Fresh(0)
  /\ pc = "table"
  /\ table \in Tables
  /\ other = NoResults
  /\ bunker = NoResults
  /\ transfer_bin = NoResults

NextCalc == ApplyCalculateProportions

SpecCalc == InitCalc /\ [][NextCalc]_vars

(***************************************************************************)
(* shift_matrix_right on arbitrary grids of 1 or 2 rows and 1 to MaxLength *)
(* columns, for step counts from below 0 to above the number of columns.   *)
(***************************************************************************)
GridValues == 0..2

Grids ==
  UNION {[1..rows -> [1..cols -> GridValues]] : rows \in 1..2, cols \in 1..MaxLength}

ShiftSteps == (-1)..(MaxLength + 1)

\* one call of shift_matrix_right(table, steps): the argument array as the
\* call leaves it (no statement of the function writes to it) and the
\* array returned
ApplyShiftMatrixRight ==
  /\ pc = "grid"
  /\ \E steps \in ShiftSteps :
       results' = [steps |-> steps, matrix |-> table,
                   shifted |-> shift_matrix_right(table, steps)]
  /\ pc' = "shifted"
  /\ UNCHANGED <<candidates, entry, calls, bf_initialized, parameters,
                 material_matrix, flow_data, chemistry_matrix, counter, time,
                 first, table, proportions_out, other, bunker, transfer_bin>>

InitShift ==
  /\ candidates = <<>>
  /\ Fresh(0)
  /\ pc = "grid"
  /\ table \in Grids
  /\ other = NoResults
  /\ bunker = NoResults
  /\ transfer_bin = NoResults

NextShift == ApplyShiftMatrixRight

SpecShift == InitShift /\ [][NextShift]_vars

(***************************************************************************)
(* Properties.                                                             *)
(***************************************************************************)
\* a call of run_simulation or run_bf_simulation has been made
Called == entry # None

\* the latest call has ended, by returning or by raising
Ended == Called /\ pc \notin {"loop", "enhance"}

\* the list of requirements on SimulationParameters, stated on the fields
MeetsRequirements(params) ==
  /\ params.total_time > 0
  /\ params.conveyor_length > 0
  /\ params.resolution_size > 0
  /\ params.conveyor_velocity > 0
  /\ params.resolution_size <= params.conveyor_length
  /\ Len(params.materials) > 0
  /\ \A i, j \in DOMAIN params.materials :
       i # j => params.materials[i] # params.materials[j]
  /\ Len(params.silos) > 0
  /\ \A i \in DOMAIN params.silos :
       LET s == params.silos[i] IN
       /\ 0 <= s.silo_position
       /\ s.silo_position * params.resolution_size
            <= params.conveyor_length - params.resolution_size
       /\ 0 <= s.material_position
       /\ s.material_position < Len(params.materials)
       /\ s.start_time <= params.total_time
       /\ 2 * (s.start_time * s.flow_rate + s.capacity)
            <= 3 * params.total_time * s.flow_rate

Unallocated ==
  /\ material_matrix = NoMatrix
  /\ flow_data = NoMatrix
  /\ chemistry_matrix = NoMatrix
  /\ counter = 0
  /\ results = NoResults

\* C1: a call of run_simulation with parameters that fail a requirement
\* raises ValidationError with no belt grid and no flow table allocated, no
\* loop iteration run and no results returned.
C1_ValidatesBeforeWork ==
  (Called /\ ~MeetsRequirements(parameters))
    => (pc = "ValidationError" /\ Unallocated)

C1_Witness ==
  /\ pc = "ValidationError"
  /\ Len(parameters.silos) = 2
  /\ Len(parameters.materials) = 2

\* C2: validate_parameters raises ValidationError if and only if one of the
\* listed requirements is violated, and returns normally otherwise.
C2_ValidatorExact ==
  Called =>
    /\ (validate_parameters(parameters) # None) <=> ~MeetsRequirements(parameters)
    /\ (pc = "ValidationError") <=> ~MeetsRequirements(parameters)

\* only the last requirement (end_time <= 1.5 * total_time) is violated
C2_Witness ==
  /\ pc = "ValidationError"
  /\ validate_parameters(parameters) = "Will not empty within reasonable time"
  /\ \A i \in DOMAIN parameters.silos :
       parameters.silos[i].start_time <= parameters.total_time

\* the mass all sources have injected in the first k loop iterations
RECURSIVE Injected(_, _)
Injected(params, k) ==
  IF k = 0 THEN 0
  ELSE Injected(params, k - 1)
       + SumSeq([i \in DOMAIN params.silos |->
                  LET s == params.silos[i]
                      t == (k - 1) * params.resolution_size
                  IN  IF /\ s.start_time * params.conveyor_velocity <= t
                         /\ (t - s.start_time * params.conveyor_velocity) * s.flow_rate
                              <= s.capacity * params.conveyor_velocity
                      THEN s.flow_rate * params.resolution_size
                      ELSE 0])

\* the mass recorded in the per-material columns of the first k rows
Recorded(data, k) == SumRows([i \in 1..k |-> MaterialColumns(data[i])])

OnBelt(matrix) == SumRows(matrix)

\* C3: after every loop iteration the mass injected so far equals the mass
\* recorded in the flow samples so far plus the mass still on the belt.
C3_MassConservation ==
  pc \in {"loop", "enhance", "done"} =>
    Injected(parameters, counter)
      = Recorded(flow_data, counter) + OnBelt(material_matrix)

\* a finished run that has emptied the belt after discharging material
C3_Witness ==
  /\ pc = "done"
  /\ OnBelt(material_matrix) = 0
  /\ Injected(parameters, counter) > 0
  /\ NSegments(parameters) >= 2
  /\ Injected(parameters, counter) = Recorded(results.flow_data, counter)

\* C4: in every row of the flow table the total column equals the sum of
\* the per-material columns.
C4_TotalIsSum ==
  /\ pc \in {"loop", "enhance", "done"} =>
       \A i \in DOMAIN flow_data :
         TotalColumn(flow_data[i]) = SumSeq(MaterialColumns(flow_data[i]))
  /\ pc = "done" =>
       \A i \in DOMAIN results.flow_data :
         TotalColumn(results.flow_data[i])
           = SumSeq(MaterialColumns(results.flow_data[i]))

\* a returned table with a row in which two materials discharge together
C4_Witness ==
  /\ pc = "done"
  /\ \E i \in DOMAIN results.flow_data :
       /\ results.flow_data[i][1] > 0
       /\ results.flow_data[i][2] > 0
       /\ TotalColumn(results.flow_data[i]) > results.flow_data[i][1]


\* C5: for every row of a flow table, calculate_proportions returns
\* material / total * 100 for each material when the total is > 0, and 0
\* for each material when the total is 0, never NaN or infinity.
C5_ProportionsDefined ==
  (pc = "calculated" /\ proportions_out.raised = None) =>
    \A i \in DOMAIN table :
      \A j \in 1..(Len(table[i]) - 2) :
        LET p == proportions_out.value[i][j] IN
        /\ p[2] # 0
        /\ TotalColumn(table[i]) > 0 => p = Rat[table[i][j] * 100, TotalColumn(table[i])]
        /\ TotalColumn(table[i]) = 0 => p = Zero

\* a table with a zero-total row whose materials are not zero, next to a
\* row with a positive total
C5_Witness ==
  /\ pc = "calculated"
  /\ proportions_out.raised = None
  /\ \E i, k \in DOMAIN table :
       /\ TotalColumn(table[i]) = 0
       /\ table[i][1] # 0
       /\ proportions_out.value[i][1] = Zero
       /\ TotalColumn(table[k]) = 3
       /\ table[k][1] = 1
       /\ proportions_out.value[k][1] = <<100, 3>>

AllZero(ps) == \A j \in DOMAIN ps : ps[j] = Zero

\* C6 as stated: a row's total is 0 if and only if every proportion of the
\* row is 0, whatever the per-material values.
C6_ZeroIffZero ==
  (pc = "calculated" /\ proportions_out.raised = None) =>
    \A i \in DOMAIN table :
      (TotalColumn(table[i]) = 0) <=> AllZero(proportions_out.value[i])

\* C6 amended: every proportion of a row is 0 if and only if the row's
\* total is 0 or every per-material value of the row is 0.
C6_ZeroIffZeroTotalOrZeroRow ==
  (pc = "calculated" /\ proportions_out.raised = None) =>
    \A i \in DOMAIN table :
      AllZero(proportions_out.value[i])
        <=> \/ TotalColumn(table[i]) = 0
            \/ \A j \in 1..(Len(table[i]) - 2) : table[i][j] = 0

\* a row of zero materials under a non-zero total, and a zero-total row of
\* non-zero materials
C6_Witness ==
  /\ pc = "calculated"
  /\ proportions_out.raised = None
  /\ \E i, k \in DOMAIN table :
       /\ TotalColumn(table[i]) = 3
       /\ Len(table[i]) = 4
       /\ table[i][1] = 0 /\ table[i][2] = 0
       /\ AllZero(proportions_out.value[i])
       /\ TotalColumn(table[k]) = 0
       /\ table[k][1] = 1
       /\ AllZero(proportions_out.value[k])

\* C7: in the proportion table of a run, a row with total flow > 0 has
\* proportions in [0, 100] that sum to 100, and a row with total flow 0 has
\* proportions that sum to 0.
C7_ProportionsSum ==
  pc = "done" =>
    \A i \in DOMAIN results.proportion_data :
      LET ps == results.proportion_data[i]
          total == TotalColumn(results.flow_data[i])
      IN  /\ Len(results.proportion_data) = Len(results.flow_data)
          /\ total > 0 =>
               /\ SumRat(ps) = <<100, 1>>
               /\ \A j \in DOMAIN ps : RatLeq(Zero, ps[j]) /\ RatLeq(ps[j], <<100, 1>>)
          /\ total = 0 => SumRat(ps) = Zero

\* a run with a zero-flow row and a row that blends two materials
C7_Witness ==
  /\ pc = "done"
  /\ \E i, k \in DOMAIN results.proportion_data :
       /\ TotalColumn(results.flow_data[i]) = 0
       /\ TotalColumn(results.flow_data[k]) > 0
       /\ Len(results.proportion_data[k]) = 2
       /\ RatLt(Zero, results.proportion_data[k][1])
       /\ RatLt(Zero, results.proportion_data[k][2])


\* the results of an earlier run_simulation call with the same parameters
Earlier(i) ==
  /\ pc = "done"
  /\ entry = "run_simulation"
  /\ candidates[i] = parameters
  /\ first[i] # NoResults

\* C8 as stated: two run_simulation calls with the same parameters on the
\* same engine return identical results, whatever calls came between them.
C8_HistoryIndependent ==
  \A i \in DOMAIN candidates : Earlier(i) => results = first[i]

\* the part of the results that does not depend on the blast furnace mode
Transport(res) ==
  [material_matrix |-> res.material_matrix,
   flow_data |-> res.flow_data,
   proportion_data |-> res.proportion_data,
   parameters |-> res.parameters,
   dt |-> res.metadata.dt,
   n_steps |-> res.metadata.n_steps,
   step_size |-> res.metadata.step_size,
   final_time |-> res.metadata.final_time,
   mass_balance |-> res.metadata.mass_balance]

\* C8 amended: the two calls return the same flow table, proportion table,
\* final belt grid, parameters and transport metadata whatever came between
\* them, and identical results when the blast furnace mode was the same at
\* both calls; a call returns a chemistry matrix and chemistry trends
\* exactly when the mode had been initialized before it, which its bf_mode
\* metadata reports.
C8_HistoryIndependentUpToMode ==
  /\ \A i \in DOMAIN candidates :
       Earlier(i) =>
         /\ Transport(results) = Transport(first[i])
         /\ results.metadata.bf_mode = first[i].metadata.bf_mode
              => results = first[i]
  /\ (pc = "done" /\ entry = "run_simulation") =>
       /\ (results.chemistry_matrix # NoMatrix) <=> results.metadata.bf_mode
       /\ (results.chemistry_trends # NoResults) <=> results.metadata.bf_mode
  /\ (pc = "loop" /\ entry = "run_simulation") =>
       (chemistry_matrix # NoMatrix) <=> bf_initialized

\* a third call, after the mode was initialized and the other parameters
\* were run, that differs from the first call in its chemistry only
C8_Witness ==
  /\ calls = 0
  /\ candidates[1] # candidates[2]
  /\ Earlier(1)
  /\ results # first[1]
  /\ first[2] # NoResults
  /\ Transport(results) = Transport(first[1])

\* the flow table of Scenario A with discharge from the sample at time t0:
\* 21 rows, row k at time k, nothing before t0 and 10 per sample from t0 on
DelayedStep(data, t0) ==
  /\ Len(data) = 21
  /\ \A k \in 1..21 :
       /\ TimeColumn(data[k]) = k - 1
       /\ data[k][1] = TotalColumn(data[k])
       /\ TimeColumn(data[k]) < t0 => TotalColumn(data[k]) = 0
       /\ TimeColumn(data[k]) >= t0 => TotalColumn(data[k]) = 10

\* C9 as stated: the call with Scenario A (capacity 1000) returns results
\* whose discharge is zero before 10 s and 10 per sample from 10 s to 20 s.
C9_ScenarioA ==
  (Ended /\ parameters = ScenarioA(1000)) =>
    /\ pc = "done"
    /\ DelayedStep(results.flow_data, 10)

\* C9 amended: the call with Scenario A raises ValidationError, the end
\* time 100 s of the source exceeding 1.5 * 20 s; with capacity 300, the
\* largest the validator accepts, the call returns results whose discharge
\* is zero before 9 s and 10 per sample from 9 s to 20 s.
C9_ScenarioARejected ==
  /\ (Ended /\ parameters = ScenarioA(1000)) =>
       /\ pc = "ValidationError"
       /\ results = NoResults
  /\ (Ended /\ parameters = ScenarioA(300)) =>
       /\ pc = "done"
       /\ DelayedStep(results.flow_data, 9)

C9_Witness ==
  /\ pc = "done"
  /\ parameters = ScenarioA(300)
  /\ results.flow_data[9][1] = 0
  /\ results.flow_data[10][1] = 10
  /\ results.flow_data[21][1] = 10

\* parameters that meet every requirement but for sources that start
\* after total_time
OnlyLateStart(params) ==
  /\ \E i \in DOMAIN params.silos : params.silos[i].start_time > params.total_time
  /\ MeetsRequirements(
       [params EXCEPT !.silos =
         [i \in DOMAIN params.silos |-> [params.silos[i] EXCEPT !.start_time = 0]]])
  /\ \A i \in DOMAIN params.silos :
       2 * (params.silos[i].start_time * params.silos[i].flow_rate
            + params.silos[i].capacity)
         <= 3 * params.total_time * params.silos[i].flow_rate

\* C10 as stated: with a source that starts after total_time the call
\* completes and returns results, the source contributing no mass.
C10_LateStartLegal ==
  (Ended /\ OnlyLateStart(parameters)) => pc = "done"

\* C10 amended: a source with start_time > total_time is fatal: the call
\* raises ValidationError before the loop and returns no results, so no
\* belt grid and no flow sample receives mass from any source.
C10_LateStartFatal ==
  (Called /\ \E i \in DOMAIN parameters.silos :
               parameters.silos[i].start_time > parameters.total_time)
    => (pc = "ValidationError" /\ Unallocated)

C10_Witness ==
  /\ pc = "ValidationError"
  /\ OnlyLateStart(parameters)
  /\ Len(parameters.silos) = 2
  /\ Unallocated

\* a source aims at a cell of the grid
InGrid(silo, matrix) ==
  /\ 0 <= silo.material_position /\ silo.material_position < Len(matrix)
  /\ 0 <= silo.silo_position /\ silo.silo_position < Len(matrix[1])

\* a source of the parameters has a position that is negative or too large
\* for a grid of n_materials rows and n_segments columns
Misplaced(params) ==
  \E i \in DOMAIN params.silos :
    LET s == params.silos[i] IN
    \/ s.material_position < 0
    \/ s.silo_position < 0
    \/ s.material_position >= Len(params.materials)
    \/ s.silo_position >= NSegments(params)

\* the mass the sources active at scaled time t discharge in one step
Discharged(params, t) ==
  SumSeq([i \in DOMAIN params.silos |->
           IF is_active_at_time(params.silos[i], t, params.conveyor_velocity)
           THEN quantity_at_time(params.silos[i], params.resolution_size)
           ELSE 0])

\* a run that reaches the loop has every source inside the grid, and a
\* misplaced source ends the call (or the construction) with an error
C11_Placed ==
  /\ pc \in {"loop", "enhance", "done"} =>
       \A i \in DOMAIN parameters.silos : InGrid(parameters.silos[i], material_matrix)
  /\ (Called /\ Misplaced(parameters)) => (pc = "ValidationError" /\ Unallocated)
  /\ (pc # "new" /\ \E k \in DOMAIN candidates :
                      \E i \in DOMAIN candidates[k].silos :
                        \/ candidates[k].silos[i].material_position < 0
                        \/ candidates[k].silos[i].silo_position < 0)
       => (pc = "ValueError" /\ ~Called)

\* one loop iteration takes in the whole discharge of every active source:
\* belt and recorded row together grow by it
C11_Step ==
  (pc = "loop" /\ pc' = "loop" /\ counter' = counter + 1) =>
    OnBelt(material_matrix') + TotalColumn(flow_data'[counter + 1])
      = OnBelt(material_matrix) + Discharged(parameters, time)

\* C11: no injection is silently skipped or clamped: a source with a
\* negative or too large material row or belt column makes the call fail,
\* and in every run that reaches the loop each active source's whole
\* discharge enters the grid at every step.
C11_NoSilentSkip == []C11_Placed /\ [][C11_Step]_vars

\* a finished run whose source discharged into the last column of a grid of
\* several columns
C11_Witness ==
  /\ pc = "done"
  /\ NSegments(parameters) >= 2
  /\ \E i \in DOMAIN parameters.silos :
       parameters.silos[i].silo_position = NSegments(parameters) - 1
  /\ Recorded(results.flow_data, counter) > 0

\* C12: the mass balance of every flow table run_simulation produces has
\* total_input equal to total_output, balance error 0 and error percent 0;
\* it is stored in the metadata of the results and a call that passed the
\* validation always ends by returning them.
C12_MassBalanceZero ==
  /\ pc \in {"enhance", "done"} =>
       LET mass_balance == results.metadata.mass_balance IN
       /\ mass_balance = calculate_mass_balance(results.flow_data)
       /\ mass_balance.total_input = mass_balance.total_output
       /\ mass_balance.total_input = Recorded(results.flow_data, Len(results.flow_data))
       /\ mass_balance.balance_error = 0
       /\ mass_balance.balance_error_percent = Zero
  /\ (Ended /\ MeetsRequirements(parameters)) => pc = "done"

\* a returned table in which two materials were recorded, at later times
C12_Witness ==
  /\ pc = "done"
  /\ results.metadata.mass_balance.total_input > 0
  /\ \E i \in DOMAIN results.flow_data :
       /\ TimeColumn(results.flow_data[i]) > 0
       /\ results.flow_data[i][1] > 0
       /\ results.flow_data[i][2] > 0

\* the mass the sources of material row m (from 1) have injected in the
\* first k loop iterations
InjectedFor(params, k, m) ==
  SumSeq([n \in 1..k |->
           SumSeq([i \in DOMAIN params.silos |->
                    LET s == params.silos[i] IN
                    IF /\ s.material_position + 1 = m
                       /\ is_active_at_time(s, (n - 1) * params.resolution_size,
                                            params.conveyor_velocity)
                    THEN quantity_at_time(s, params.resolution_size)
                    ELSE 0])])

\* the mass recorded for material row m in the first k rows of a flow table
RecordedFor(data, k, m) == SumSeq([n \in 1..k |-> data[n][m]])

\* C13: row isolation: the mass injected for a material row is, after every
\* iteration, the mass in that row of the grid plus the mass recorded in
\* that material's column of the flow table, so no mass of one material
\* appears in the row or the column of another, also when sources of
\* different materials inject at the same belt column in the same step.
C13_RowIsolation ==
  pc \in {"loop", "enhance", "done"} =>
    \A m \in DOMAIN material_matrix :
      InjectedFor(parameters, counter, m)
        = RecordedFor(flow_data, counter, m) + SumSeq(material_matrix[m])

\* Scenario B: two sources of different material rows at the same belt
\* column with the same start, in a finished run that recorded both
C13_Witness ==
  /\ pc = "done"
  /\ \E i, j \in DOMAIN parameters.silos :
       /\ parameters.silos[i].material_position = 0
       /\ parameters.silos[j].material_position = 1
       /\ parameters.silos[i].silo_position = parameters.silos[j].silo_position
       /\ parameters.silos[i].start_time = parameters.silos[j].start_time
       /\ parameters.silos[i].flow_rate # parameters.silos[j].flow_rate
  /\ RecordedFor(results.flow_data, counter, 1) > 0
  /\ RecordedFor(results.flow_data, counter, 2) > 0
  /\ RecordedFor(results.flow_data, counter, 1) = InjectedFor(parameters, counter, 1)

\* the locals <<material_matrix, flow_data, chemistry_matrix>> of a run on
\* its own, on an engine in mode bf, after k loop iterations
LocalsAfter(params, bf, k) ==
  LET Locals[n \in 0..k] ==
        IF n = 0
        THEN <<ZeroMatrix(Len(params.materials), NSegments(params)),
               ZeroMatrix(NSteps(params) + 1, Len(params.materials) + 2),
               IF ChemistryEnabled(bf, params)
               THEN _initialize_chemistry_tracking(Len(params.materials),
                                                   NSegments(params),
                                                   params.material_chemistry)
               ELSE NoMatrix>>
        ELSE LET before == Locals[n - 1]
                 t == (n - 1) * params.resolution_size
                 grids == ProcessSilos(<<before[1], before[3]>>, params.silos, t, params)
             IN  <<shift_matrix_right(grids[1], StepSize(params)),
                   [i \in 1..Len(before[2]) |->
                     IF i = n THEN Record(grids[1], t) ELSE before[2][i]],
                   IF grids[2] # NoMatrix
                   THEN _shift_chemistry_matrix(grids[2], StepSize(params))
                   ELSE grids[2]>>
  IN  Locals[k]

\* the number of iterations the while loop makes
Iterations(params) ==
  CHOOSE k \in 0..(NSteps(params) + 1) :
    /\ ~LoopCondition(k * params.resolution_size, k, params)
    /\ \A j \in 0..(k - 1) : LoopCondition(j * params.resolution_size, j, params)

\* the results of a run on its own
RunAlone(params, bf, enhanced) ==
  LET k == Iterations(params)
      locals == LocalsAfter(params, bf, k)
      res == MakeResults(locals[1], locals[2], locals[3], k,
                         k * params.resolution_size, params, bf)
  IN  IF enhanced THEN _enhance_bf_results(res, params) ELSE res

\* each of the two runs is, at every iteration and at its end, where it
\* would be on its own
C14_Alone ==
  /\ pc = "loop" =>
       <<material_matrix, flow_data, chemistry_matrix>>
         = LocalsAfter(parameters, chemistry_matrix # NoMatrix, counter)
  /\ pc = "done" =>
       results = RunAlone(parameters, results.metadata.bf_mode,
                          entry = "run_bf_simulation")
  /\ other.pc = "loop" =>
       <<other.material_matrix, other.flow_data, other.chemistry_matrix>>
         = LocalsAfter(other.parameters, other.use_bf_mode, other.counter)
  /\ other.pc = "done" =>
       other.results = RunAlone(other.parameters, other.use_bf_mode, other.use_bf_mode)

\* a step of one run leaves every variable of the other run alone
C14_Frame ==
  /\ other' # other => UNCHANGED engine
  /\ engine' # engine => other' = other

\* C14: two runs on two engines, interleaved at the loop iterations, each
\* produce what they produce alone, and no grid, table or engine field of
\* one run is written by the other.
C14_Isolation == []C14_Alone /\ [][C14_Frame]_vars

\* both runs are inside their loops, on different parameters and with
\* mass on both belts, one of them with mass recorded
C14_Witness ==
  /\ pc = "loop"
  /\ other.pc = "loop"
  /\ counter = 2
  /\ other.counter = 1
  /\ parameters # other.parameters
  /\ OnBelt(material_matrix) > 0
  /\ OnBelt(other.material_matrix) > 0
  /\ Recorded(flow_data, counter) > 0
  /\ Recorded(other.flow_data, other.counter) = 0

\* the seven lists of a chemistry trend
TrendLists(trends) ==
  <<trends.fe_trend, trends.sio2_trend, trends.cao_trend, trends.mgo_trend,
    trends.al2o3_trend, trends.basicity_trend, trends.time_points>>

\* the rows of a flow table of a belt of velocity v whose total flow
\* (scaled by v) is > 1e-6
FlowingRows(data, v) == {i \in DOMAIN data : 1000000 * TotalColumn(data[i]) > v}

\* C15: the chemistry trend of a chemistry-enabled run has a data point for
\* a flow row if and only if the total flow of the row is > 1e-6: the seven
\* lists have one entry per such row, and time_points holds the times of
\* exactly those rows in increasing order.
C15_TrendPoints ==
  (pc \in {"enhance", "done"} /\ results.chemistry_trends # NoResults) =>
    LET trends == results.chemistry_trends
        data == results.flow_data
        rows == FlowingRows(data, parameters.conveyor_velocity)
    IN  /\ \A n \in 1..7 : Len(TrendLists(trends)[n]) = Cardinality(rows)
        /\ {trends.time_points[n] : n \in DOMAIN trends.time_points}
             = {TimeColumn(data[i]) : i \in rows}
        /\ \A n \in 1..(Len(trends.time_points) - 1) :
             trends.time_points[n] < trends.time_points[n + 1]

\* a trend of two points or more of a table that has a row without flow
\* after a row with flow
C15_Witness ==
  /\ pc = "done"
  /\ results.chemistry_trends # NoResults
  /\ Len(results.chemistry_trends.time_points) >= 2
  /\ \E i, j \in DOMAIN results.flow_data :
       /\ i < j
       /\ TotalColumn(results.flow_data[i]) > 0
       /\ TotalColumn(results.flow_data[j]) = 0

\* C16: at every chemistry trend point the recorded basicity is
\* blended_CaO / max(blended_SiO2, 0.1), whatever the blended SiO2 is,
\* values at or below 0.1 included.
C16_BasicityFloor ==
  (pc \in {"enhance", "done"} /\ results.chemistry_trends # NoResults) =>
    LET trends == results.chemistry_trends
    IN  \A n \in DOMAIN trends.basicity_trend :
          trends.basicity_trend[n] =
            RatDiv[trends.cao_trend[n],
                   IF RatLt(trends.sio2_trend[n], <<1, 10>>)
                   THEN <<1, 10>> ELSE trends.sio2_trend[n]]

\* a trend point whose blended SiO2 is not above 0.1 and whose blended CaO
\* is positive, recorded with basicity 0
C16_Witness ==
  /\ pc = "done"
  /\ results.chemistry_trends # NoResults
  /\ \E n \in DOMAIN results.chemistry_trends.basicity_trend :
       /\ RatLeq(results.chemistry_trends.sio2_trend[n], <<1, 10>>)
       /\ RatLt(Zero, results.chemistry_trends.cao_trend[n])
       /\ results.chemistry_trends.basicity_trend[n] = Zero

\* the heights of the first n layers of a bunker, added up
HeightBelow(self, n) == SumRat([i \in 1..n |-> self.layers[i].height])

\* the layers of a bunker: in the order of the calls, each one on top of
\* the ones before it, all of them within the bunker
C17_Layers ==
  pc = "bunker" =>
    /\ \A i \in DOMAIN bunker.layers :
         /\ bunker.layers[i].timestamp = i - 1
         /\ bunker.layers[i].position = HeightBelow(bunker, i - 1)
    /\ RatLeq(HeightBelow(bunker, Len(bunker.layers)), <<bunker.height, 1>>)

\* a call appends one layer and leaves the layers below as they are; the
\* new layer has the height and the volume asked for, or, where that would
\* pass the top of the bunker, the height that was left and the volume of
\* that height
C17_Step ==
  (pc = "bunker" /\ bunker' # bunker) =>
    LET n == Len(bunker.layers)
        new == bunker'.layers[n + 1]
        top == HeightBelow(bunker, n)
        area == <<bunker.diameter * bunker.diameter, 1>>
        full == <<bunker.height, 1>>
    IN  /\ Len(bunker'.layers) = n + 1
        /\ SubSeq(bunker'.layers, 1, n) = bunker.layers
        /\ new.position = top
        /\ \E material \in BunkerMaterials, volume \in BunkerVolumes :
             /\ new.material_name = material.name
             /\ IF RatLt(full, RatAdd[top, RatDiv[volume, area]])
                THEN /\ new.height = RatSub[full, top]
                     /\ new.volume = RatMul[RatSub[full, top], area]
                ELSE /\ new.height = RatDiv[volume, area]
                     /\ new.volume = volume

\* C17: after any sequence of add_material_layer calls the layers are in
\* arrival order, the position of a layer is the sum of the heights of the
\* layers added before it, the heights add up to the bunker height at
\* most, and a layer that would pass the top is cut to the height that is
\* left, its volume being that height times the cross-section.
C17_Layering == []C17_Layers /\ [][C17_Step]_vars

\* a bunker filled to the top by a layer that was cut to a part of its
\* volume, with a layer of height 0 added after it
C17_Witness ==
  /\ pc = "bunker"
  /\ Len(bunker.layers) = 3
  /\ HeightBelow(bunker, 3) = <<bunker.height, 1>>
  /\ RatLt(Zero, bunker.layers[2].height)
  /\ bunker.layers[2].volume \notin BunkerVolumes
  /\ bunker.layers[3].height = Zero
  /\ bunker.layers[3].volume = Zero

\* C18: of every layer, basicity_b2 is CaO/SiO2, and 0 when SiO2 is 0;
\* basicity_b4 is (CaO+MgO)/(SiO2+Al2O3), and 0 when SiO2+Al2O3 is 0;
\* neither divides by zero.
C18_Basicities ==
  pc = "bunker" =>
    \A i \in DOMAIN bunker.layers :
      LET layer == bunker.layers[i]
          acidic == layer.sio2_content + layer.al2o3_content
      IN  /\ basicity_b2(layer) # ZeroDivisionError
          /\ basicity_b4(layer) # ZeroDivisionError
          /\ basicity_b2(layer) =
               IF layer.sio2_content = 0 THEN Zero
               ELSE Rat[layer.cao_content, layer.sio2_content]
          /\ basicity_b4(layer) =
               IF acidic = 0 THEN Zero
               ELSE Rat[layer.cao_content + layer.mgo_content, acidic]

\* a bunker that holds a layer with silica, a layer with lime and alumina
\* and no silica, and a layer with lime and neither silica nor alumina
C18_Witness ==
  /\ pc = "bunker"
  /\ \E i, j, k \in DOMAIN bunker.layers :
       /\ basicity_b2(bunker.layers[i]) = <<1, 2>>
       /\ basicity_b4(bunker.layers[i]) = <<3, 5>>
       /\ bunker.layers[j].sio2_content = 0
       /\ bunker.layers[j].cao_content > 0
       /\ basicity_b2(bunker.layers[j]) = Zero
       /\ basicity_b4(bunker.layers[j]) = <<2, 1>>
       /\ bunker.layers[k].sio2_content + bunker.layers[k].al2o3_content = 0
       /\ bunker.layers[k].cao_content > 0
       /\ basicity_b4(bunker.layers[k]) = Zero

\* the scaled mass that the sources of params add to cell (m, c) at the
\* scaled time t: flow_rate * dt of every source of that cell with
\* start_time <= t <= start_time + capacity / flow_rate
AddedAt(params, t, m, c) ==
  SumSeq([i \in DOMAIN params.silos |->
           LET s == params.silos[i]
               v == params.conveyor_velocity
           IN  IF /\ s.material_position + 1 = m
                  /\ s.silo_position + 1 = c
                  /\ s.start_time * v <= t
                  /\ t * s.flow_rate <= (s.start_time * s.flow_rate + s.capacity) * v
               THEN s.flow_rate * params.resolution_size
               ELSE 0])

\* the content of cell (m, c) after the injections of an iteration, read
\* from what the iteration leaves: the cell one column on, or the flow
\* sample for the last column
AfterInjection(m, c) ==
  IF c < Len(material_matrix[m])
  THEN material_matrix'[m][c + 1]
  ELSE flow_data'[counter + 1][m]

C19_Step ==
  (pc = "loop" /\ counter' = counter + 1) =>
    \A m \in DOMAIN material_matrix :
      \A c \in DOMAIN material_matrix[m] :
        AfterInjection(m, c) = material_matrix[m][c] + AddedAt(parameters, time, m, c)

\* C19: at each loop iteration with simulation time t, exactly the sources
\* with start_time <= t <= end_time (both ends included) add flow_rate * dt
\* to their cell (material_row, belt_column); sources outside their window
\* add nothing; sources of the same cell add up.
C19_Injection == [][C19_Step]_vars

\* two sources of one cell, both at the end of their window at t = 1 and
\* outside it at t = 2: after the third iteration the cell injected at
\* t = 1 holds the mass of both and the cell injected at t = 2 is empty
C19_Witness ==
  /\ pc = "loop"
  /\ counter = 3
  /\ parameters.resolution_size = 1
  /\ parameters.conveyor_velocity = 1
  /\ Len(parameters.silos) = 2
  /\ \A i \in 1..2 :
       /\ parameters.silos[i].silo_position = 0
       /\ parameters.silos[i].material_position = parameters.silos[1].material_position
       /\ end_time(parameters.silos[i]) = <<1, 1>>
  /\ LET m == parameters.silos[1].material_position + 1
     IN  /\ Len(material_matrix[m]) = 3
         /\ material_matrix[m][3] = 4
         /\ material_matrix[m][2] = 0
         /\ material_matrix[m][1] = 0

\* the last column of the grid after the injections at the scaled time t
LastAfterInjection(m) ==
  material_matrix[m][Len(material_matrix[m])]
    + AddedAt(parameters, time, m, Len(material_matrix[m]))

\* the mass on the belt after the injections at the scaled time t
OnBeltAfterInjection ==
  OnBelt(material_matrix)
    + SumSeq([m \in DOMAIN material_matrix |->
               SumSeq([c \in DOMAIN material_matrix[m] |->
                        AddedAt(parameters, time, m, c)])])

C20_Step ==
  (pc = "loop" /\ counter' = counter + 1) =>
    LET n == Len(material_matrix)
        row == flow_data'[counter + 1]
    IN  /\ \A m \in 1..n : row[m] = LastAfterInjection(m)
        /\ row[n + 1] = time
        /\ row[n + 2] = SumSeq([m \in 1..n |-> LastAfterInjection(m)])
        /\ OnBeltAfterInjection - OnBelt(material_matrix') = row[n + 2]

\* C20: within one iteration the order is inject, record, shift: flow
\* sample row k holds the last grid column after the injections of step k
\* and before its shift, so the mass that the shift of step k drops off the
\* end of the belt is the mass recorded in row k.
C20_InjectRecordShift == [][C20_Step]_vars

\* a source at the last column of a belt of two cells or more: what it
\* injects in the first iteration is in row 1 of the flow table and no
\* longer on the belt
C20_Witness ==
  /\ pc = "loop"
  /\ counter = 1
  /\ Len(material_matrix[1]) >= 2
  /\ Len(parameters.silos) = 1
  /\ parameters.silos[1].silo_position = Len(material_matrix[1]) - 1
  /\ parameters.silos[1].start_time = 0
  /\ flow_data[1][parameters.silos[1].material_position + 1]
       = parameters.silos[1].flow_rate * parameters.resolution_size
  /\ OnBelt(material_matrix) = 0

\* C21: shift_matrix_right(matrix, s) returns a grid of the dimensions of
\* matrix; for 0 < s < n_columns column j + s holds the old column j, the
\* first s columns are zero and the last s old columns are dropped; for
\* s >= n_columns every cell is zero; for s <= 0 the result equals the
\* argument; the argument is as it was before the call.
C21_Shift ==
  pc = "shifted" =>
    LET s == results.steps
        old == table
        new == results.shifted
        cols == Len(old[1])
    IN  /\ results.matrix = old
        /\ Len(new) = Len(old)
        /\ \A m \in DOMAIN new :
             /\ Len(new[m]) = cols
             /\ s <= 0 => new[m] = old[m]
             /\ s >= cols => \A c \in 1..cols : new[m][c] = 0
             /\ (0 < s /\ s < cols) =>
                  /\ \A j \in 1..(cols - s) : new[m][j + s] = old[m][j]
                  /\ \A c \in 1..s : new[m][c] = 0
                  /\ SumSeq(new[m]) = SumSeq(SubSeq(old[m], 1, cols - s))

\* a grid of two rows and three columns without a zero cell, shifted by 2:
\* the old first column is in the third, the rest is dropped
C21_Witness ==
  /\ pc = "shifted"
  /\ results.steps = 2
  /\ Len(table) = 2
  /\ Len(table[1]) = 3
  /\ \A m \in 1..2 : \A c \in 1..3 : table[m][c] > 0
  /\ table[1][1] # table[2][1]
  /\ \A m \in 1..2 : results.shifted[m] = <<0, 0, table[m][1]>>

\* the loop has made counter passes, pass k at the scaled time
\* (k - 1) * resolution_size; once it is left it has made
\* floor(total_time / dt) + 1 passes and the table returned has one row
\* for each of them, row k with time (k - 1) * dt, none beyond total_time
C22_Rows ==
  /\ pc = "loop" =>
       /\ time = counter * parameters.resolution_size
       /\ counter <= Len(flow_data)
       /\ Len(flow_data)
            = (parameters.total_time * parameters.conveyor_velocity)
                \div parameters.resolution_size + 1
  /\ pc \in {"enhance", "done"} =>
       /\ counter
            = (parameters.total_time * parameters.conveyor_velocity)
                \div parameters.resolution_size + 1
       /\ Len(results.flow_data) = counter
       /\ \A k \in DOMAIN results.flow_data :
            /\ TimeColumn(results.flow_data[k]) = (k - 1) * parameters.resolution_size
            /\ TimeColumn(results.flow_data[k])
                 <= parameters.total_time * parameters.conveyor_velocity
       /\ \A k \in 1..(Len(results.flow_data) - 1) :
            TimeColumn(results.flow_data[k]) < TimeColumn(results.flow_data[k + 1])

C23_Unwritten ==
  pc = "loop" =>
    \A k \in DOMAIN flow_data :
      k > counter => \A n \in DOMAIN flow_data[k] : flow_data[k][n] = 0

\* a step of the run leaves every row written before as it is, in the
\* table of the loop and in the table returned
C23_Step ==
  pc = "loop" =>
    /\ \A k \in 1..counter : k \in DOMAIN flow_data' /\ flow_data'[k] = flow_data[k]
    /\ pc' \in {"enhance", "done"} =>
         /\ Len(results'.flow_data) = counter
         /\ \A k \in 1..counter : results'.flow_data[k] = flow_data[k]

\* C23: flow samples are append-only and not aliased to the belt grid:
\* once row k of the flow table is written, no later injection, shift or
\* iteration changes a value of it, and the rows beyond the current
\* iteration are still zero.
C23_AppendOnly == []C23_Unwritten /\ [][C23_Step]_vars

\* two rows written, the first with flow and the second with another
\* content of the last column, and a row not yet written
C23_Witness ==
  /\ pc = "loop"
  /\ counter = 2
  /\ Len(flow_data) >= 3
  /\ TotalColumn(flow_data[1]) > 0
  /\ MaterialColumns(flow_data[2]) # MaterialColumns(flow_data[1])
  /\ LastColumn(material_matrix) # MaterialColumns(flow_data[1])

\* material_chemistry[name]['chemistry'][k]
ChemistryOf(params, name, k) ==
  LET i == CHOOSE i \in DOMAIN params.material_chemistry :
             params.material_chemistry[i].name = name
  IN  params.material_chemistry[i].chemistry[k]

\* component k of the blend of a flow row, each material column i weighted
\* with the chemistry of materials[i]
BlendByName(params, row, k) ==
  SumRat([i \in DOMAIN params.materials |->
           Rat[row[i] * ChemistryOf(params, params.materials[i], k),
               TotalColumn(row)]])

\* the flow row of the n-th trend point
TrendRow(res, n) ==
  res.flow_data[CHOOSE r \in DOMAIN res.flow_data :
                  TimeColumn(res.flow_data[r]) = res.chemistry_trends.time_points[n]]

SourcesAt(params, t, m, c) ==
  SumSeq([i \in DOMAIN params.silos |->
           LET s == params.silos[i]
               v == params.conveyor_velocity
           IN  IF /\ s.material_position + 1 = m
                  /\ s.silo_position + 1 = c
                  /\ s.start_time * v <= t
                  /\ t * s.flow_rate <= (s.start_time * s.flow_rate + s.capacity) * v
               THEN 1 ELSE 0])

\* a chemistry cell is zero wherever the mass cell is zero
C25_ZeroWithMass ==
  (pc = "loop" /\ chemistry_matrix # NoMatrix) =>
    \A m \in DOMAIN material_matrix :
      \A c \in DOMAIN material_matrix[m] :
        material_matrix[m][c] = 0 =>
          chemistry_matrix[m][c] = [k \in 1..Components |-> 0]

\* an iteration adds to chemistry cell (m, c) the chemistry of the material
\* of row m once for every source that injects mass into (m, c), and moves
\* the chemistry grid one cell on, as it moves the mass grid
C25_Step ==
  (pc = "loop" /\ counter' = counter + 1 /\ chemistry_matrix # NoMatrix) =>
    \A m \in DOMAIN material_matrix :
      /\ chemistry_matrix'[m][1] = [k \in 1..Components |-> 0]
      /\ material_matrix'[m][1] = 0
      /\ \A c \in 1..(Len(material_matrix[m]) - 1) :
           /\ material_matrix'[m][c + 1]
                = material_matrix[m][c] + AddedAt(parameters, time, m, c)
           /\ chemistry_matrix'[m][c + 1] =
                [k \in 1..Components |->
                  chemistry_matrix[m][c][k]
                    + SourcesAt(parameters, time, m, c)
                        * ChemistryOf(parameters, parameters.materials[m], k)]

InjectedBy(params, i, k) ==
  quantity_at_time(params.silos[i], params.resolution_size)
    * Cardinality({n \in 0..(k - 1) :
                     is_active_at_time(params.silos[i], n * params.resolution_size,
                                       params.conveyor_velocity)})

\* C26: over a run, the mass a source injects onto the belt (flow_rate * dt
\* times the number of steps at which it is active) does not pass the
\* capacity of the source, and a source whose window is shorter than a
\* timestep injects one timestep's worth of mass at most.
C26_WithinCapacity ==
  pc \in {"loop", "enhance", "done"} =>
    /\ SumSeq([i \in DOMAIN parameters.silos |-> InjectedBy(parameters, i, counter)])
         = Recorded(flow_data, counter) + OnBelt(material_matrix)
    /\ \A i \in DOMAIN parameters.silos :
         LET silo == parameters.silos[i] IN
         /\ InjectedBy(parameters, i, counter)
              <= silo.capacity * parameters.conveyor_velocity
         /\ silo.capacity * parameters.conveyor_velocity
              < silo.flow_rate * parameters.resolution_size
            => InjectedBy(parameters, i, counter)
                 <= quantity_at_time(silo, parameters.resolution_size)

\* a run of one source that has put more than its capacity on the belt
C26_Witness ==
  /\ pc = "done"
  /\ Len(parameters.silos) = 1
  /\ parameters.silos[1].capacity = 2
  /\ parameters.silos[1].flow_rate = 1
  /\ parameters.conveyor_velocity = 1
  /\ Recorded(flow_data, counter) + OnBelt(material_matrix) = 3

\* the scaled mass of material row m that reaches the discharge column in
\* iteration r (counted from 0) when the belt moves one cell per step:
\* what was injected at column c (counted from 1) in iteration
\* r - (n_columns - c)
ArrivingAt(params, cols, m, r) ==
  SumSeq([c \in 1..cols |->
           IF r - (cols - c) >= 0
           THEN AddedAt(params, (r - (cols - c)) * params.resolution_size, m, c)
           ELSE 0])

\* C27: the belt moves one cell per step, the step size being the same in
\* every iteration, so the mass injected at column c in step k is recorded
\* once, in flow row k + (n_columns - 1 - c) of the column of its material
\* (where the table has that row), and in no other row.
C27_TravelDelay ==
  pc \in {"loop", "enhance", "done"} =>
    /\ StepSize(parameters) = 1
    /\ \A r \in 1..counter :
         \A m \in DOMAIN material_matrix :
           flow_data[r][m]
             = ArrivingAt(parameters, Len(material_matrix[m]), m, r - 1)

\* a source at the first of three columns that starts at time 0: the first
\* two flow rows are empty and the third holds its first injection
C27_Witness ==
  /\ pc = "done"
  /\ counter >= 3
  /\ Len(parameters.silos) = 1
  /\ parameters.silos[1].silo_position = 0
  /\ parameters.silos[1].start_time = 0
  /\ Len(material_matrix[1]) = 3
  /\ LET m == parameters.silos[1].material_position + 1
     IN  /\ flow_data[1][m] = 0
         /\ flow_data[2][m] = 0
         /\ flow_data[3][m]
              = parameters.silos[1].flow_rate * parameters.resolution_size

\* the volumes of a list of layers, added up
LayerVolumes(layers) == SumRat([i \in 1..Len(layers) |-> layers[i].volume])

\* C28: after any sequence of add_material and discharge_material calls
\* 0 <= current_volume <= capacity, current_volume is the sum of the
\* volumes of material_layers and every stored layer has a volume > 0;
\* add_material on a full bin changes nothing.
C28_BinInvariant ==
  pc = "bin" =>
    /\ RatLeq(Zero, transfer_bin.current_volume)
    /\ RatLeq(transfer_bin.current_volume, <<transfer_bin.capacity, 1>>)
    /\ transfer_bin.current_volume = LayerVolumes(transfer_bin.material_layers)
    /\ \A i \in DOMAIN transfer_bin.material_layers :
         RatLt(Zero, transfer_bin.material_layers[i].volume)
    /\ (/\ results # NoResults
        /\ results.op = "add_material"
        /\ results.before.current_volume = <<results.before.capacity, 1>>)
       => transfer_bin = results.before

\* an add_material call on a bin that two layers fill to its capacity,
\* the second of them cut to the room that was left
C28_Witness ==
  /\ pc = "bin"
  /\ results # NoResults
  /\ results.op = "add_material"
  /\ results.before.current_volume = <<results.before.capacity, 1>>
  /\ Len(results.before.material_layers) = 2
  /\ results.before.material_layers[2].volume \notin BinVolumes
  /\ transfer_bin = results.before

\* C29: discharge_material is FIFO and exact: the layers returned are the
\* first layers of the bin in insertion order, the last of them possibly
\* in part, what is left of that layer staying at the front of the bin;
\* the volume returned is min(volume_to_discharge, current_volume before
\* the call) and current_volume goes down by that amount.
C29_FifoExact ==
  (pc = "bin" /\ results # NoResults /\ results.op = "discharge_material") =>
    LET old == results.before.material_layers
        out == results.discharged
        n == Len(out)
        asked == results.volume
        taken == IF RatLeq(asked, results.before.current_volume)
                 THEN asked ELSE results.before.current_volume
    IN  /\ n <= Len(old)
        /\ \A i \in 1..(n - 1) : out[i] = old[i]
        /\ n > 0 =>
             /\ [out[n] EXCEPT !.volume = old[n].volume] = old[n]
             /\ RatLt(Zero, out[n].volume)
             /\ RatLeq(out[n].volume, old[n].volume)
             /\ transfer_bin.material_layers =
                  IF out[n].volume = old[n].volume
                  THEN SubSeq(old, n + 1, Len(old))
                  ELSE <<[old[n] EXCEPT
                            !.volume = RatSub[old[n].volume, out[n].volume]]>>
                         \o SubSeq(old, n + 1, Len(old))
        /\ n = 0 => transfer_bin.material_layers = old
        /\ LayerVolumes(out) = taken
        /\ transfer_bin.current_volume = RatSub[results.before.current_volume, taken]

\* a discharge that returns the first layer whole and a part of the
\* second, whose rest is the first layer of the bin after the call
C29_Witness ==
  /\ pc = "bin"
  /\ results # NoResults
  /\ results.op = "discharge_material"
  /\ Len(results.discharged) = 2
  /\ Len(results.before.material_layers) = 3
  /\ results.discharged[1] = results.before.material_layers[1]
  /\ RatLt(results.discharged[2].volume, results.before.material_layers[2].volume)
  /\ Len(transfer_bin.material_layers) = 2
  /\ transfer_bin.material_layers[1].timestamp
       = results.before.material_layers[2].timestamp

\* the volume the latest discharge took out of the bin
TakenFromBin == RatSub[results.bin_before.current_volume, transfer_bin.current_volume]

\* the volume the latest discharge added to the layers of the bunker
GainedByBunker ==
  RatSub[LayerVolumes(bunker.layers), LayerVolumes(results.bunker_before.layers)]

\* C30: every discharge_to_bunker, asked for by the operator or made when
\* the bin reaches the high trigger, adds to the volumes of the layers of
\* the bunker exactly the volume it takes out of the transfer bin.
C30_VolumeConserved ==
  (pc = "system" /\ results # NoResults) => GainedByBunker = TakenFromBin

\* a discharge into a bunker that it fills to the top: the bin has given
\* more than the bunker has taken
C30_Witness ==
  /\ pc = "system"
  /\ results # NoResults
  /\ HeightBelow(bunker, Len(bunker.layers)) = <<bunker.height, 1>>
  /\ RatLt(Zero, GainedByBunker)
  /\ RatLt(GainedByBunker, TakenFromBin)

====
